---- MODULE Spec2Model ----
(***************************************************************************)
(* Absence recording, threshold evaluation and threshold notification of   *)
(* the school administration application (models.py, routes/admin.py,      *)
(* routes/api.py, utils/email_service.py).                                 *)
(*                                                                         *)
(* Hours are Float columns in the source.  Every quantity of hours in this *)
(* module (a record's hours, a total, a module's absence_threshold) is an  *)
(* integer number of half hours, the smallest amount the absence form      *)
(* accepts; `threshold * 0.5 <= total` is computed as                      *)
(* `threshold <= 2 * total`, which is the same comparison.                 *)
(***************************************************************************)
EXTENDS Integers, FiniteSets, Sequences, TLC

(* ------------------------------ bounds --------------------------------- *)

\* Largest hours value (in half hours) a request carries.
MaxHours == 2

\* Largest absence_threshold (in half hours) a module is given.
MaxThreshold == 3

\* Number of absence rows (student and professor) the explored runs insert.
MaxInserts == 2

\* Number of user rows the explored runs store.
MaxUsers == 3

\* Number of teaching_assignment rows the explored runs store.
MaxAssignments == 2

\* Number of module rows the explored runs store.
MaxModules == 3

\* Longest list a multi-select form field carries.
MaxSelected == 2

(* --------------------------- program constants -------------------------- *)

\* NumberRange(min=0.5, max=12) of the absence forms, in half hours.
FormMinHours == 1
FormMaxHours == 24

\* Module.absence_threshold, db.Column(db.Float, default=10), in half hours.
DefaultAbsenceThreshold == 20

(* ------------------------------ domains -------------------------------- *)

\* Primary keys of the student_profile, module and professor_profile rows.
Students == {1, 2}
Modules == {1, 2}
Professors == {1}

\* Primary keys of the classe rows.
Classes == {1, 2}

\* Calendar days, none of them in the future.
Dates == {1, 2}

\* Request handlers running at the same time (one server thread each).
Workers == {1, 2}

Thresholds == 0 .. MaxThreshold

\* Values the hours field of a request may carry: 0 is the missing / zero field.
HoursInputs == 0 .. MaxHours

\* A student_id / module_id of an API request body: 0 is the missing field and
\* the largest value is the id of no row.
ApiStudentInputs == Students \cup {0, 3}
ApiModuleInputs == Modules \cup {0, 3}

VARIABLES
    absence_threshold,      \* Module.absence_threshold, per module id
    student_absence,        \* the student_absence table: a set of rows
    professor_absence,      \* the professor_absence table: a set of rows
    inserted,               \* number of absence rows inserted so far
    outbox,                 \* threshold emails handed to the mailer, per <<student, module, kind>>
    error_log,              \* number of current_app.logger.error entries
    req,                    \* per worker: the request it is handling and its last response
    user,                   \* the user table: a set of rows
    student_profile,        \* the student_profile table: a set of rows
    professor_profile,      \* the professor_profile table: a set of rows
    staff_profile,          \* the staff_profile table: a set of rows
    teaching_assignment,    \* the teaching_assignment table: a set of rows
    module_code,            \* Module.code, per module id
    response,               \* the HTTP response of the last account / directory request
    mail_thread,            \* per <<student, module, kind>>: what the mail threads did
    threshold_setting       \* the threshold_setting table: a set of rows

\* The variables of the absence handlers.
absence_vars == <<absence_threshold, student_absence, professor_absence,
                  inserted, outbox, error_log, req>>

\* The variables the absence handlers never write.
directory_vars == <<user, student_profile, professor_profile, staff_profile,
                    teaching_assignment, module_code, response, mail_thread, threshold_setting>>

vars == <<absence_threshold, student_absence, professor_absence,
          inserted, outbox, error_log, req,
          user, student_profile, professor_profile, staff_profile,
          teaching_assignment, module_code, response, mail_thread, threshold_setting>>

EmailKinds == {"warning", "exceeded"}

(* ------------------------------ helpers -------------------------------- *)

RECURSIVE SumHours(_)
\* sum(a.hours for a in rows)
SumHours(rows) ==
    IF rows = {} THEN 0
    ELSE LET a == CHOOSE x \in rows : TRUE
         IN  a.hours + SumHours(rows \ {a})

(* ------------------------------ models.py ------------------------------ *)

\* Mutant of ExistingStudentAbsence: student and module are passed in the wrong order.
ExistingStudentAbsenceSwapped(table, s, m, d) ==
    {a \in table : a.student_id = m /\ a.module_id = s /\ a.date = d}

\* StudentAbsence.query.filter_by(student_id=..., module_id=..., date=...).first()
ExistingStudentAbsence(table, s, m, d) ==
    {a \in table : a.student_id = s /\ a.module_id = m /\ a.date = d}

\* ProfessorAbsence.query.filter_by(professor_id=..., date=...).first()
ExistingProfessorAbsence(table, p, d) ==
    {a \in table : a.professor_id = p /\ a.date = d}

\* Mutant of get_total_absence_hours: the module filter is forgotten.
get_total_absence_hours_any_module(table, s, module_id, count_justified) ==
    LET q0 == {a \in table : a.student_id = s}
        q2 == IF ~count_justified THEN {a \in q0 : a.is_justified = FALSE} ELSE q0
    IN  SumHours(q2)

\* StudentProfile.get_total_absence_hours(module_id=None, count_justified=False);
\* module_id 0 stands for None (both are falsy).
get_total_absence_hours(table, s, module_id, count_justified) ==
    LET q0 == {a \in table : a.student_id = s}
        q1 == IF module_id # 0 THEN {a \in q0 : a.module_id = module_id} ELSE q0
        q2 == IF ~count_justified THEN {a \in q1 : a.is_justified = FALSE} ELSE q1
    IN  SumHours(q2)

\* ProfessorProfile.get_total_absence_hours(count_justified=False)
professor_get_total_absence_hours(table, p, count_justified) ==
    LET absences == {a \in table : a.professor_id = p}
        kept == IF ~count_justified THEN {a \in absences : ~a.is_justified} ELSE absences
    IN  SumHours(kept)

\* Mutant of StatusOf: the threshold itself does not count as exceeded.
StatusOfStrict(total_absence, threshold) ==
    IF total_absence > threshold THEN "exceeded"
    ELSE IF 2 * total_absence >= threshold THEN "warning"
    ELSE "ok"

\* Mutant of StatusOf: the two results are returned by the wrong branches.
StatusOfSwapped(total_absence, threshold) ==
    IF total_absence >= threshold THEN "warning"
    ELSE IF 2 * total_absence >= threshold THEN "exceeded"
    ELSE "ok"

\* The comparison chain of check_threshold_status.
StatusOf(total_absence, threshold) ==
    IF total_absence >= threshold THEN "exceeded"
    ELSE IF 2 * total_absence >= threshold THEN "warning"
    ELSE "ok"

\* StudentProfile.check_threshold_status(module_id)
check_threshold_status(table, thr, s, module_id) ==
    IF module_id \notin DOMAIN thr THEN "ok"
    ELSE StatusOf(get_total_absence_hours(table, s, module_id, FALSE), thr[module_id])

\* StudentProfile.get_absence_rate(module_id), in percent (integer part)
get_absence_rate(table, thr, s, module_id) ==
    IF module_id \notin DOMAIN thr \/ thr[module_id] = 0 THEN 0
    ELSE (get_total_absence_hours(table, s, module_id, FALSE) * 100) \div thr[module_id]

(* --------------------------- request handlers --------------------------- *)

\* A worker that handles no request; `result` is the response of its last one.
Idle(result) ==
    [pc |-> "idle", op |-> "none", who |-> 0, module_id |-> 0, date |-> 0,
     hours |-> 0, is_justified |-> FALSE, result |-> result]

\* A worker between two database round trips of a creation request.
Pending(pc, op, who, m, d, h, j) ==
    [pc |-> pc, op |-> op, who |-> who, module_id |-> m, date |-> d,
     hours |-> h, is_justified |-> j, result |-> "none"]

\* Creation requests that passed the duplicate check and have not committed yet.
InFlight == Cardinality({w \in Workers : req[w].pc = "commit"})

\* The explored runs insert at most MaxInserts rows: a request that would add
\* one more is not explored (requests that are rejected always are).
MayInsert == inserted + InFlight < MaxInserts

\* StudentAbsenceForm / ProfessorAbsenceForm validators on the hours field:
\* DataRequired and NumberRange(min=0.5, max=12).
FormHoursValid(h) == h # 0 /\ h >= FormMinHours /\ h <= FormMaxHours

\* Mutant of StudentAbsenceIntegrityError: the table has no unique constraint.
StudentAbsenceNoConstraint(table, s, m, d) == FALSE

\* db.UniqueConstraint('student_id', 'module_id', 'date'): the insert raises
\* IntegrityError when a row with the same key is stored.
StudentAbsenceIntegrityError(table, s, m, d) ==
    \E a \in table : a.student_id = s /\ a.module_id = m /\ a.date = d

\* db.UniqueConstraint('professor_id', 'date')
ProfessorAbsenceIntegrityError(table, p, d) ==
    \E a \in table : a.professor_id = p /\ a.date = d

\* The StudentAbsence(...) row a pending request adds.
NewStudentAbsence(w) ==
    [student_id |-> req[w].who, module_id |-> req[w].module_id, date |-> req[w].date,
     hours |-> req[w].hours, is_justified |-> req[w].is_justified]

\* The ProfessorAbsence(...) row a pending request adds.
NewProfessorAbsence(w) ==
    [professor_id |-> req[w].who, date |-> req[w].date,
     hours |-> req[w].hours, is_justified |-> req[w].is_justified]

\* EmailService.send_threshold_warning / send_threshold_exceeded -> send_email:
\* the message is handed to the mail thread.
Mailed(s, m, kind) ==
    [outbox EXCEPT ![<<s, m, kind>>] = @ + 1]

\* admin.create_student_absence, form validation and duplicate check.
admin_create_student_absence_check(w, s, m, d, h, j) ==
    /\ req[w].pc = "idle"
    /\ LET after ==
            IF ~FormHoursValid(h) THEN Idle("invalid")
            ELSE IF ExistingStudentAbsence(student_absence, s, m, d) # {}
                 THEN Idle("duplicate")
            ELSE Pending("commit", "admin_student", s, m, d, h, j)
       IN  /\ after.pc = "commit" => MayInsert
           /\ req' = [req EXCEPT ![w] = after]
    /\ UNCHANGED <<absence_threshold, student_absence, professor_absence,
                   inserted, outbox, error_log>>
    /\ UNCHANGED directory_vars

\* admin.create_student_absence, db.session.add + commit.  An IntegrityError is
\* not caught by the view: the 500 handler of app.py rolls the session back.
admin_create_student_absence_commit(w) ==
    /\ req[w].pc = "commit"
    /\ req[w].op = "admin_student"
    /\ IF StudentAbsenceIntegrityError(student_absence, req[w].who,
                                       req[w].module_id, req[w].date)
       THEN /\ req' = [req EXCEPT ![w] = Idle("error500")]
            /\ UNCHANGED <<student_absence, inserted>>
       ELSE /\ student_absence' = student_absence \cup {NewStudentAbsence(w)}
            /\ inserted' = inserted + 1
            /\ req' = [req EXCEPT ![w].pc = "notify"]
    /\ UNCHANGED <<absence_threshold, professor_absence, outbox, error_log>>
    /\ UNCHANGED directory_vars

\* Mutant of admin_create_student_absence_notify: the EmailService call is not
\* wrapped in try/except, a failure ends the request with the 500 page.
admin_create_student_absence_notify_uncaught(w, mail_ok) ==
    /\ req[w].pc = "notify"
    /\ req[w].op = "admin_student"
    /\ LET s == req[w].who
           m == req[w].module_id
           status == check_threshold_status(student_absence, absence_threshold, s, m)
       IN  IF status \in EmailKinds
           THEN IF mail_ok
                THEN /\ outbox' = Mailed(s, m, status)
                     /\ req' = [req EXCEPT ![w] = Idle("created")]
                ELSE /\ req' = [req EXCEPT ![w] = Idle("error500")]
                     /\ UNCHANGED outbox
           ELSE /\ req' = [req EXCEPT ![w] = Idle("created")]
                /\ UNCHANGED outbox
    /\ UNCHANGED <<absence_threshold, student_absence, professor_absence,
                   inserted, error_log>>
    /\ UNCHANGED directory_vars

\* admin.create_student_absence, threshold check and notification.  mail_ok is
\* whether the EmailService call returns (TRUE) or raises (FALSE).
admin_create_student_absence_notify(w, mail_ok) ==
    /\ req[w].pc = "notify"
    /\ req[w].op = "admin_student"
    /\ LET s == req[w].who
           m == req[w].module_id
           status == check_threshold_status(student_absence, absence_threshold, s, m)
       IN  IF status \in EmailKinds
           THEN IF mail_ok
                THEN outbox' = Mailed(s, m, status) /\ UNCHANGED error_log
                ELSE error_log' = error_log + 1 /\ UNCHANGED outbox
           ELSE UNCHANGED <<outbox, error_log>>
    /\ req' = [req EXCEPT ![w] = Idle("created")]
    /\ UNCHANGED <<absence_threshold, student_absence, professor_absence, inserted>>
    /\ UNCHANGED directory_vars

\* api.create_student_absence, field checks, lookups and duplicate check.
api_create_student_absence_check(w, s, m, d, h, j) ==
    /\ req[w].pc = "idle"
    /\ LET after ==
            IF s = 0 \/ m = 0 \/ h = 0 THEN Idle("invalid")
            ELSE IF s \notin Students THEN Idle("not_found")
            ELSE IF m \notin Modules THEN Idle("not_found")
            ELSE IF ExistingStudentAbsence(student_absence, s, m, d) # {}
                 THEN Idle("duplicate")
            ELSE Pending("commit", "api_student", s, m, d, h, j)
       IN  /\ after.pc = "commit" => MayInsert
           /\ req' = [req EXCEPT ![w] = after]
    /\ UNCHANGED <<absence_threshold, student_absence, professor_absence,
                   inserted, outbox, error_log>>
    /\ UNCHANGED directory_vars

\* api.create_student_absence, db.session.add + commit inside the try block:
\* an IntegrityError is caught, rolled back, logged and answered as DatabaseError.
api_create_student_absence_commit(w) ==
    /\ req[w].pc = "commit"
    /\ req[w].op = "api_student"
    /\ IF StudentAbsenceIntegrityError(student_absence, req[w].who,
                                       req[w].module_id, req[w].date)
       THEN /\ req' = [req EXCEPT ![w] = Idle("error500")]
            /\ error_log' = error_log + 1
            /\ UNCHANGED <<student_absence, inserted>>
       ELSE /\ student_absence' = student_absence \cup {NewStudentAbsence(w)}
            /\ inserted' = inserted + 1
            /\ req' = [req EXCEPT ![w].pc = "notify"]
            /\ UNCHANGED error_log
    /\ UNCHANGED <<absence_threshold, professor_absence, outbox>>
    /\ UNCHANGED directory_vars

\* api.create_student_absence, threshold check and notification.
api_create_student_absence_notify(w, mail_ok) ==
    /\ req[w].pc = "notify"
    /\ req[w].op = "api_student"
    /\ LET s == req[w].who
           m == req[w].module_id
           status == check_threshold_status(student_absence, absence_threshold, s, m)
       IN  IF status \in EmailKinds
           THEN IF mail_ok
                THEN outbox' = Mailed(s, m, status) /\ UNCHANGED error_log
                ELSE error_log' = error_log + 1 /\ UNCHANGED outbox
           ELSE UNCHANGED <<outbox, error_log>>
    /\ req' = [req EXCEPT ![w] = Idle("created")]
    /\ UNCHANGED <<absence_threshold, student_absence, professor_absence, inserted>>
    /\ UNCHANGED directory_vars

\* Mutant of toggle_student_absence_justified: the handler also notifies the
\* student when the flipped flag leaves the status at 'warning' or 'exceeded'.
toggle_student_absence_justified_notifying(a) ==
    /\ IF a \in student_absence
       THEN LET table == (student_absence \ {a}) \cup
                            {[a EXCEPT !.is_justified = ~a.is_justified]}
                status == check_threshold_status(table, absence_threshold,
                                                 a.student_id, a.module_id)
            IN  /\ student_absence' = table
                /\ outbox' = IF status \in EmailKinds
                             THEN Mailed(a.student_id, a.module_id, status)
                             ELSE outbox
       ELSE UNCHANGED <<student_absence, outbox>>
    /\ UNCHANGED <<absence_threshold, professor_absence, inserted, error_log, req>>
    /\ UNCHANGED directory_vars

\* admin / api toggle_student_absence_justified of the row `a` the absence_id
\* names: 404 when no such row is stored, otherwise the flag is flipped.
toggle_student_absence_justified(a) ==
    /\ IF a \in student_absence
       THEN student_absence' =
                (student_absence \ {a}) \cup {[a EXCEPT !.is_justified = ~a.is_justified]}
       ELSE UNCHANGED student_absence
    /\ UNCHANGED <<absence_threshold, professor_absence, inserted, outbox, error_log, req>>
    /\ UNCHANGED directory_vars

\* admin / api delete_student_absence of the row `a` the absence_id names:
\* 404 when no such row is stored, otherwise the row is deleted.
delete_student_absence(a) ==
    /\ IF a \in student_absence
       THEN student_absence' = student_absence \ {a}
       ELSE UNCHANGED student_absence
    /\ UNCHANGED <<absence_threshold, professor_absence, inserted, outbox, error_log, req>>
    /\ UNCHANGED directory_vars

\* admin.staff_dashboard: the (student, module) pairs listed as threshold alerts.
threshold_alerts ==
    {<<a.student_id, a.module_id>> : a \in
        {b \in student_absence :
            check_threshold_status(student_absence, absence_threshold,
                                   b.student_id, b.module_id) \in EmailKinds}}

\* admin.staff_dashboard renders the alerts; it writes nothing.
staff_dashboard ==
    /\ Cardinality(threshold_alerts) >= 0
    /\ UNCHANGED vars

\* admin.create_professor_absence, form validation and duplicate check.
admin_create_professor_absence_check(w, p, d, h, j) ==
    /\ req[w].pc = "idle"
    /\ LET after ==
            IF ~FormHoursValid(h) THEN Idle("invalid")
            ELSE IF ExistingProfessorAbsence(professor_absence, p, d) # {}
                 THEN Idle("duplicate")
            ELSE Pending("commit", "admin_professor", p, 0, d, h, j)
       IN  /\ after.pc = "commit" => MayInsert
           /\ req' = [req EXCEPT ![w] = after]
    /\ UNCHANGED <<absence_threshold, student_absence, professor_absence,
                   inserted, outbox, error_log>>
    /\ UNCHANGED directory_vars

\* admin.create_professor_absence, db.session.add + commit.
admin_create_professor_absence_commit(w) ==
    /\ req[w].pc = "commit"
    /\ req[w].op = "admin_professor"
    /\ IF ProfessorAbsenceIntegrityError(professor_absence, req[w].who, req[w].date)
       THEN /\ req' = [req EXCEPT ![w] = Idle("error500")]
            /\ UNCHANGED <<professor_absence, inserted>>
       ELSE /\ professor_absence' = professor_absence \cup {NewProfessorAbsence(w)}
            /\ inserted' = inserted + 1
            /\ req' = [req EXCEPT ![w] = Idle("created")]
    /\ UNCHANGED <<absence_threshold, student_absence, outbox, error_log>>
    /\ UNCHANGED directory_vars

(* ------------------------- accounts: models.py -------------------------- *)

\* UserRole
SUPER_ADMIN == "super_admin"
ADMIN_STAFF == "admin_staff"
PROFESSOR == "professor"
STUDENT == "student"

\* UserRole.all()
UserRole_all == {SUPER_ADMIN, ADMIN_STAFF, PROFESSOR, STUDENT}

\* generate_password_hash(password): the stored value is not the password.
generate_password_hash(password) == <<"pbkdf2", password>>

\* Mutant of check_password: every submitted password is accepted.
check_password_any(u, password) == TRUE

\* User.check_password(password)
check_password(u, password) == u.password_hash = generate_password_hash(password)

\* User.generate_initial_password(): one of the strings the generator returns.
GeneratedPasswords == {"generated"}

\* The session of a request nobody is logged in for (AnonymousUserMixin).
Anonymous ==
    [id |-> 0, email |-> "", role |-> "anonymous", is_active |-> FALSE,
     is_first_login |-> FALSE, password_hash |-> <<"none", "">>, initial_password |-> ""]

\* current_user.is_authenticated: true of every user row the user loader
\* returns for the id in the session cookie, whatever its is_active column
\* holds (the decorators test is_active separately, after is_authenticated).
is_authenticated(cu) == cu.id # 0

\* User.can_create_users()
user_can_create_users(cu) == cu.role \in {SUPER_ADMIN, ADMIN_STAFF}

\* The next primary key of a table (rowid: one more than the largest stored).
NextId(table) ==
    IF table = {} THEN 1
    ELSE (CHOOSE i \in {r.id : r \in table} : \A r \in table : r.id <= i) + 1

\* A new User(...) row: is_active and is_first_login take the column defaults,
\* the id is the next autoincrement value (rows are never deleted).
NewUser(email, role, password, initial_password, first_login) ==
    [id |-> NextId(user), email |-> email, role |-> role, is_active |-> TRUE,
     is_first_login |-> first_login, password_hash |-> generate_password_hash(password),
     initial_password |-> initial_password]

\* A new StudentProfile / ProfessorProfile / StaffProfile row of user u; number
\* is the student_id / employee_id column, class_id 0 is NULL.
NewProfile(table, u, number, class_id) ==
    [id |-> NextId(table), user_id |-> u.id, number |-> number, class_id |-> class_id]

\* User.query.filter_by(email=...).first()
UserByEmail(email) == {u \in user : u.email = email}

\* User.query.get(user_id)
UserById(user_id) == {u \in user : u.id = user_id}

\* XProfile.query.filter_by(student_id / employee_id = ...).first()
ProfileByNumber(table, number) == {p \in table : p.number = number}

\* User.student_profile / professor_profile / staff_profile (uselist=False)
ProfilesOf(table, u) == {p \in table : p.user_id = u.id}

\* User.profile: the rows of the table the role selects.
user_profile(u) ==
    IF u.role = STUDENT THEN ProfilesOf(student_profile, u)
    ELSE IF u.role = PROFESSOR THEN ProfilesOf(professor_profile, u)
    ELSE IF u.role \in {ADMIN_STAFF, SUPER_ADMIN} THEN ProfilesOf(staff_profile, u)
    ELSE {}

(* ------------------------------ responses ------------------------------ *)

\* A message text: the parts an f-string is put together from.
Text(s) == <<s>>

\* What str(e) can be for an exception raised inside a try block of a handler.
Exceptions == {"IntegrityError: UNIQUE constraint failed", "OperationalError: database is locked"}

\* No exception is raised.
NoException == "none"

\* api.error_response(message, error_type, status_code, **kwargs): the three
\* keys are set first and response.update(kwargs) is applied after them.
error_response(message, error_type, status_code, kwargs) ==
    [route |-> "api", status |-> status_code, kind |-> "json",
     body |-> [k \in {"success", "error", "message"} \cup DOMAIN kwargs |->
                  IF k \in DOMAIN kwargs THEN kwargs[k]
                  ELSE IF k = "success" THEN Text("false")
                  ELSE IF k = "error" THEN Text(error_type)
                  ELSE message]]

\* A call with no keyword argument, as every call in api.py is.
NoKwargs == [k \in {} |-> Text("")]

\* api.success_response(data, message, status_code)
success_response(message, status_code) ==
    [route |-> "api", status |-> status_code, kind |-> "json",
     body |-> [k \in {"success", "message"} |->
                  IF k = "success" THEN Text("true") ELSE message]]

\* AppException.to_dict(): the payload is copied first, then the three keys are set.
AppException_to_dict(payload, class_name, message) ==
    [k \in {"success", "error", "message"} \cup DOMAIN payload |->
        IF k = "success" THEN Text("false")
        ELSE IF k = "error" THEN Text(class_name)
        ELSE IF k = "message" THEN message
        ELSE payload[k]]

\* The jsonify(...) of api_login_required / api_role_required.
api_denied(error, message, status_code) ==
    [route |-> "api", status |-> status_code, kind |-> "json",
     body |-> [k \in {"success", "error", "message"} |->
                  IF k = "success" THEN Text("false")
                  ELSE IF k = "error" THEN Text(error)
                  ELSE Text(message)]]

\* app.register_error_handlers: 400, 401, 403, 404 and 500 are answered with a
\* rendered HTML page (errors/<code>.html), for every blueprint.
error_page(route, status_code) ==
    [route |-> route, status |-> status_code, kind |-> "html",
     body |-> [k \in {"template"} |-> Text("errors")]]

\* A web handler's flash(message, category) followed by a redirect or a render.
flashed(message, category, status_code) ==
    [route |-> "web", status |-> status_code, kind |-> "html",
     body |-> [k \in {"flash", "category"} |->
                  IF k = "flash" THEN message ELSE Text(category)]]

\* No request was answered yet.
NoResponse ==
    [route |-> "none", status |-> 0, kind |-> "none", body |-> [k \in {} |-> Text("")]]

(* ------------------------- utils/decorators.py -------------------------- *)

\* Mutant of admin_required: only students are kept out.
admin_required_not_student(cu) == cu.role # STUDENT

\* admin_required: the test on current_user.role.
admin_required(cu) == cu.role \in {SUPER_ADMIN, ADMIN_STAFF}

\* super_admin_required: the test on current_user.role.
super_admin_required(cu) == cu.role = SUPER_ADMIN

\* api_role_required(*roles): the test on current_user.role.
api_role_required(roles, cu) == cu.role \in roles

\* The response of a web decorator that stops the request: a redirect to the
\* login page for an anonymous request, abort(403) otherwise.
web_denied(cu) ==
    IF ~is_authenticated(cu) THEN flashed(Text("Veuillez vous connecter."), "warning", 302)
    ELSE error_page("web", 403)

\* The response of api_login_required / api_role_required(roles) when they stop
\* the request; NoResponse when the handler runs.
api_gate(roles, cu) ==
    IF ~is_authenticated(cu)
    THEN api_denied("Authentication required", "Veuillez vous connecter.", 401)
    ELSE IF ~cu.is_active
    THEN api_denied("Account disabled", "Votre compte est désactivé.", 403)
    ELSE IF ~api_role_required(roles, cu)
    THEN api_denied("Forbidden", "Vous n'avez pas les permissions nécessaires.", 403)
    ELSE NoResponse

(* ---------------------- accounts: request handlers ---------------------- *)

\* Mutant of session_rollback: the flushed rows stay in the table.
session_rollback_keeps_flushed(committed, flushed) == flushed

\* db.session.rollback(): the rows added or flushed since the last commit are
\* dropped, the committed table is what is left.
session_rollback(committed, flushed) == committed

\* The explored runs store at most MaxUsers users.
MayCreateUser == Cardinality(user) < MaxUsers

\* The tables and the response after the try block of a creation handler: role
\* selects the profile table; exc is the exception raised after the user row
\* was flushed (NoException: the commit succeeds); on_error and on_success
\* are the responses of the two outcomes.
CreateUserWithProfile(cu, email, role, number, class_id, pw, initial_password, exc, on_error, on_success) ==
    LET u == NewUser(email, role, pw, initial_password, TRUE)
        flushed == user \cup {u}
        failed == exc # NoException
    IN  /\ ~failed => MayCreateUser
        /\ user' = IF failed THEN session_rollback(user, flushed) ELSE flushed
        /\ student_profile' =
                IF role = STUDENT /\ ~failed
                THEN student_profile \cup {NewProfile(student_profile, u, number, class_id)}
                ELSE student_profile
        /\ professor_profile' =
                IF role = PROFESSOR /\ ~failed
                THEN professor_profile \cup {NewProfile(professor_profile, u, number, 0)}
                ELSE professor_profile
        /\ staff_profile' =
                IF role \in {ADMIN_STAFF, SUPER_ADMIN} /\ ~failed
                THEN staff_profile \cup {NewProfile(staff_profile, u, number, 0)}
                ELSE staff_profile
        /\ response' = IF failed THEN on_error ELSE on_success

\* The response of a web creation handler whose try block raised exc.
creation_failed(exc) == flashed(<<"Erreur lors de la création: ", exc>>, "danger", 200)

\* The response of a web creation handler that committed.
creation_done(pw) == flashed(<<"créé avec succès! Mot de passe initial: ", pw>>, "success", 302)

\* Module.code of the modules of the absence tables.
SetupModuleCodes == [m \in Modules |-> IF m = 1 THEN "PROG1" ELSE "PROG2"]

\* app.init_default_data: the super admin and its staff profile are created
\* when no super admin is stored, and the sample modules (of which PROG1 and
\* PROG2 are kept, both with a threshold of 10 hours) when the sample data is
\* not stored.
init_default_data ==
    /\ IF \E u \in user : u.role = SUPER_ADMIN
       THEN UNCHANGED <<user, staff_profile>>
       ELSE LET u == NewUser("admin@gestionscol.tn", SUPER_ADMIN, "admin123", "", FALSE)
            IN  /\ user' = user \cup {u}
                /\ staff_profile' = staff_profile \cup
                        {NewProfile(staff_profile, u, "ADMIN001", 0)}
    /\ IF DOMAIN module_code # {}
       THEN UNCHANGED <<absence_threshold, module_code>>
       ELSE /\ absence_threshold' = [m \in Modules |-> DefaultAbsenceThreshold]
            /\ module_code' = SetupModuleCodes
    /\ UNCHANGED <<student_profile, professor_profile, teaching_assignment,
                   response, mail_thread, threshold_setting>>
    /\ UNCHANGED <<student_absence, professor_absence, inserted, outbox, error_log, req>>

\* admin.create_student (login_required, can_create_users): form_ok is
\* form.validate_on_submit().
admin_create_student(cu, form_ok, email, number, class_id, exc) ==
    /\ IF ~(is_authenticated(cu) /\ user_can_create_users(cu))
       THEN /\ response' = web_denied(cu)
            /\ UNCHANGED <<user, student_profile, professor_profile, staff_profile>>
       ELSE IF ~form_ok
       THEN /\ response' = flashed(Text(""), "none", 200)
            /\ UNCHANGED <<user, student_profile, professor_profile, staff_profile>>
       ELSE IF UserByEmail(email) # {}
       THEN /\ response' = flashed(Text("Cet email est déjà utilisé."), "danger", 200)
            /\ UNCHANGED <<user, student_profile, professor_profile, staff_profile>>
       ELSE IF ProfileByNumber(student_profile, number) # {}
       THEN /\ response' = flashed(Text("Ce numéro étudiant est déjà utilisé."), "danger", 200)
            /\ UNCHANGED <<user, student_profile, professor_profile, staff_profile>>
       ELSE \E pw \in GeneratedPasswords :
                CreateUserWithProfile(cu, email, STUDENT, number, class_id, pw, pw, exc,
                                      creation_failed(exc), creation_done(pw))
    /\ UNCHANGED <<teaching_assignment, module_code, mail_thread, threshold_setting>>
    /\ UNCHANGED absence_vars

\* admin.create_staff (login_required, super_admin_required)
admin_create_staff(cu, form_ok, email, number, exc) ==
    /\ IF ~(is_authenticated(cu) /\ super_admin_required(cu))
       THEN /\ response' = web_denied(cu)
            /\ UNCHANGED <<user, student_profile, professor_profile, staff_profile>>
       ELSE IF ~form_ok
       THEN /\ response' = flashed(Text(""), "none", 200)
            /\ UNCHANGED <<user, student_profile, professor_profile, staff_profile>>
       ELSE IF UserByEmail(email) # {}
       THEN /\ response' = flashed(Text("Cet email est déjà utilisé."), "danger", 200)
            /\ UNCHANGED <<user, student_profile, professor_profile, staff_profile>>
       ELSE IF ProfileByNumber(staff_profile, number) # {}
       THEN /\ response' = flashed(Text("Ce matricule est déjà utilisé."), "danger", 200)
            /\ UNCHANGED <<user, student_profile, professor_profile, staff_profile>>
       ELSE \E pw \in GeneratedPasswords :
                CreateUserWithProfile(cu, email, ADMIN_STAFF, number, 0, pw, pw, exc,
                                      creation_failed(exc), creation_done(pw))
    /\ UNCHANGED <<teaching_assignment, module_code, mail_thread, threshold_setting>>
    /\ UNCHANGED absence_vars

\* The NULL of the academic_year column.
NullYear == "NULL"

\* f"{datetime.now().year}-{datetime.now().year + 1}"
CurrentYear == "2026-2027"

\* A TeachingAssignment(...) row; class_id 0 is NULL ('all classes').
NewAssignment(table, professor_id, module_id, class_id, academic_year) ==
    [id |-> NextId(table), professor_id |-> professor_id, module_id |-> module_id,
     class_id |-> class_id, academic_year |-> academic_year]

\* db.UniqueConstraint('professor_id', 'module_id', 'class_id', 'academic_year'):
\* the insert raises IntegrityError when a stored row has the same four values;
\* a NULL is equal to nothing, so a row with a NULL column never conflicts.
unique_teaching(table, row) ==
    /\ row.class_id # 0
    /\ row.academic_year # NullYear
    /\ \E a \in table :
            /\ a.professor_id = row.professor_id
            /\ a.module_id = row.module_id
            /\ a.class_id = row.class_id
            /\ a.academic_year = row.academic_year

RECURSIVE AddAssignments(_, _, _)
\* for x in selected: db.session.add(TeachingAssignment(...)) with class NULL.
\* pairs holds <<professor_id, module_id>> of the row added for each element
\* of the list the multi-select field carries (a value may repeat).
AddAssignments(table, pairs, academic_year) ==
    IF pairs = << >> THEN table
    ELSE LET p == Head(pairs)
         IN  AddAssignments(
                 table \cup {NewAssignment(table, p[1], p[2], 0, academic_year)},
                 Tail(pairs), academic_year)

\* The explored runs give the teaching assignments the ids 1 .. MaxAssignments:
\* n more rows may be added to table.
MayAssign(table, n) == NextId(table) + n - 1 <= MaxAssignments

\* admin.create_professor (login_required, can_create_users): modules is
\* form.modules.data.
admin_create_professor(cu, form_ok, email, number, modules, exc) ==
    /\ IF ~(is_authenticated(cu) /\ user_can_create_users(cu))
       THEN /\ response' = web_denied(cu)
            /\ UNCHANGED <<user, student_profile, professor_profile, staff_profile,
                           teaching_assignment>>
       ELSE IF ~form_ok
       THEN /\ response' = flashed(Text(""), "none", 200)
            /\ UNCHANGED <<user, student_profile, professor_profile, staff_profile,
                           teaching_assignment>>
       ELSE IF UserByEmail(email) # {}
       THEN /\ response' = flashed(Text("Cet email est déjà utilisé."), "danger", 200)
            /\ UNCHANGED <<user, student_profile, professor_profile, staff_profile,
                           teaching_assignment>>
       ELSE IF ProfileByNumber(professor_profile, number) # {}
       THEN /\ response' = flashed(Text("Ce matricule est déjà utilisé."), "danger", 200)
            /\ UNCHANGED <<user, student_profile, professor_profile, staff_profile,
                           teaching_assignment>>
       ELSE /\ MayAssign(teaching_assignment, Len(modules))
            /\ \E pw \in GeneratedPasswords :
                CreateUserWithProfile(cu, email, PROFESSOR, number, 0, pw, pw, exc,
                                      creation_failed(exc), creation_done(pw))
            /\ LET profile_id == NextId(professor_profile)
                   pairs == [i \in DOMAIN modules |-> <<profile_id, modules[i]>>]
                   flushed == AddAssignments(teaching_assignment, pairs, NullYear)
               IN  teaching_assignment' =
                        IF exc # NoException
                        THEN session_rollback(teaching_assignment, flushed)
                        ELSE flushed
    /\ UNCHANGED <<module_code, mail_thread, threshold_setting>>
    /\ UNCHANGED absence_vars

\* The profile table api.create_user fills for a role.
ProfileTableOf(role) ==
    IF role = STUDENT THEN student_profile
    ELSE IF role = PROFESSOR THEN professor_profile
    ELSE staff_profile

\* api.create_user (api_login_required, api_role_required(SUPER_ADMIN,
\* ADMIN_STAFF)): body is the request body ("malformed": not parseable as JSON,
\* "empty": no data, "object": the fields that follow); "" is a missing field;
\* number is profile.student_id / profile.employee_id.
api_create_user(cu, body, role, email, number, exc) ==
    /\ LET gate == api_gate({SUPER_ADMIN, ADMIN_STAFF}, cu)
           rejected ==
               IF gate # NoResponse THEN gate
               ELSE IF body = "malformed" THEN error_page("api", 400)
               ELSE IF body = "empty"
               THEN error_response(Text("Données requises"), "ValidationError", 400, NoKwargs)
               ELSE IF email = "" \/ role = ""
               THEN error_response(Text("Email et rôle requis"), "ValidationError", 400, NoKwargs)
               ELSE IF role \notin UserRole_all
               THEN error_response(Text("Rôle invalide"), "ValidationError", 400, NoKwargs)
               ELSE IF role = ADMIN_STAFF /\ cu.role # SUPER_ADMIN
               THEN error_response(
                        Text("Seul un super admin peut créer du personnel administratif"),
                        "AuthorizationError", 403, NoKwargs)
               ELSE IF UserByEmail(email) # {}
               THEN error_response(Text("Cet email est déjà utilisé"), "DuplicateError", 409, NoKwargs)
               ELSE IF exc # NoException THEN NoResponse
               ELSE IF number = ""
               THEN error_response(Text("student_id / employee_id requis"), "ValidationError", 400, NoKwargs)
               ELSE IF ProfileByNumber(ProfileTableOf(role), number) # {}
               THEN error_response(Text("Ce numéro existe déjà"), "DuplicateError", 409, NoKwargs)
               ELSE NoResponse
           flushed == user \cup {NewUser(email, role, "", "", TRUE)}
       IN  IF rejected # NoResponse
           THEN /\ response' = rejected
                /\ user' = session_rollback(user, IF rejected.status \in {400, 409}
                                                     /\ role \in UserRole_all
                                                     /\ UserByEmail(email) = {}
                                                  THEN flushed ELSE user)
                /\ UNCHANGED <<student_profile, professor_profile, staff_profile>>
           ELSE \E pw \in GeneratedPasswords :
                    CreateUserWithProfile(cu, email, role, number, 0, pw, "", exc,
                        error_response(Text(exc), "DatabaseError", 500, NoKwargs),
                        success_response(Text("Utilisateur créé avec succès"), 201))
    /\ UNCHANGED <<teaching_assignment, module_code, mail_thread, threshold_setting>>
    /\ UNCHANGED absence_vars

\* The user table after user.is_active = not user.is_active; db.session.commit()
ToggledActive(target) ==
    (user \ {target}) \cup {[target EXCEPT !.is_active = ~target.is_active]}

\* 'activé' if user.is_active else 'désactivé'
ActiveWord(is_active) == IF is_active THEN "activé" ELSE "désactivé"

\* Mutant of admin_toggle_user_status: the test on the user's own id is missing.
admin_toggle_user_status_self(cu, id) ==
    /\ IF ~(is_authenticated(cu) /\ admin_required(cu))
       THEN response' = web_denied(cu) /\ UNCHANGED user
       ELSE IF UserById(id) = {}
       THEN response' = error_page("web", 404) /\ UNCHANGED user
       ELSE LET target == CHOOSE u \in UserById(id) : TRUE
            IN  IF target.role = SUPER_ADMIN /\ cu.role # SUPER_ADMIN
                THEN /\ response' = flashed(Text("Seul un super administrateur peut modifier un autre super administrateur."), "danger", 302)
                     /\ UNCHANGED user
                ELSE /\ user' = ToggledActive(target)
                     /\ response' = flashed(<<"Compte ", ActiveWord(~target.is_active),
                                              " avec succès.">>, "success", 302)
    /\ UNCHANGED <<student_profile, professor_profile, staff_profile,
                   teaching_assignment, module_code, mail_thread, threshold_setting>>
    /\ UNCHANGED absence_vars

\* admin.toggle_user_status (login_required, admin_required)
admin_toggle_user_status(cu, id) ==
    /\ IF ~(is_authenticated(cu) /\ admin_required(cu))
       THEN response' = web_denied(cu) /\ UNCHANGED user
       ELSE IF UserById(id) = {}
       THEN response' = error_page("web", 404) /\ UNCHANGED user
       ELSE LET target == CHOOSE u \in UserById(id) : TRUE
            IN  IF target.id = cu.id
                THEN /\ response' = flashed(Text("Vous ne pouvez pas désactiver votre propre compte."), "danger", 302)
                     /\ UNCHANGED user
                ELSE IF target.role = SUPER_ADMIN /\ cu.role # SUPER_ADMIN
                THEN /\ response' = flashed(Text("Seul un super administrateur peut modifier un autre super administrateur."), "danger", 302)
                     /\ UNCHANGED user
                ELSE /\ user' = ToggledActive(target)
                     /\ response' = flashed(<<"Compte ", ActiveWord(~target.is_active),
                                              " avec succès.">>, "success", 302)
    /\ UNCHANGED <<student_profile, professor_profile, staff_profile,
                   teaching_assignment, module_code, mail_thread, threshold_setting>>
    /\ UNCHANGED absence_vars

\* api.toggle_user_status (api_login_required, api_role_required(SUPER_ADMIN,
\* ADMIN_STAFF))
api_toggle_user_status(cu, user_id) ==
    /\ LET gate == api_gate({SUPER_ADMIN, ADMIN_STAFF}, cu)
       IN  IF gate # NoResponse
           THEN response' = gate /\ UNCHANGED user
           ELSE IF UserById(user_id) = {}
           THEN /\ response' = error_response(Text("Utilisateur non trouvé"), "NotFoundError", 404, NoKwargs)
                /\ UNCHANGED user
           ELSE LET target == CHOOSE u \in UserById(user_id) : TRUE
                IN  IF target.id = cu.id
                    THEN /\ response' = error_response(
                                Text("Vous ne pouvez pas modifier votre propre statut"),
                                "ValidationError", 400, NoKwargs)
                         /\ UNCHANGED user
                    ELSE IF target.role = SUPER_ADMIN /\ cu.role # SUPER_ADMIN
                    THEN /\ response' = error_response(Text("Permission refusée"),
                                                       "AuthorizationError", 403, NoKwargs)
                         /\ UNCHANGED user
                    ELSE /\ user' = ToggledActive(target)
                         /\ response' = success_response(
                                <<"Utilisateur ", ActiveWord(~target.is_active)>>, 200)
    /\ UNCHANGED <<student_profile, professor_profile, staff_profile,
                   teaching_assignment, module_code, mail_thread, threshold_setting>>
    /\ UNCHANGED absence_vars

\* auth.change_password (login_required): form_ok is form.validate_on_submit().
change_password(cu, form_ok, current_password, new_password) ==
    /\ IF ~is_authenticated(cu)
       THEN response' = web_denied(cu) /\ UNCHANGED user
       ELSE IF ~form_ok
       THEN response' = flashed(Text(""), "none", 200) /\ UNCHANGED user
       ELSE IF ~check_password(cu, current_password)
       THEN /\ response' = flashed(Text("Mot de passe actuel incorrect."), "danger", 200)
            /\ UNCHANGED user
       ELSE /\ user' = (user \ {cu}) \cup
                    {[cu EXCEPT !.password_hash = generate_password_hash(new_password),
                                !.is_first_login = FALSE,
                                !.initial_password = ""]}
            /\ response' = flashed(Text("Mot de passe changé avec succès!"), "success", 302)
    /\ UNCHANGED <<student_profile, professor_profile, staff_profile,
                   teaching_assignment, module_code, mail_thread, threshold_setting>>
    /\ UNCHANGED absence_vars

(* ------------------ teaching assignments: routes/admin.py --------------- *)

\* Module.query.filter_by(code=...).first(): the ids of the modules with the code.
ModuleByCode(code) == {m \in DOMAIN module_code : module_code[m] = code}

\* TeachingAssignment.query.filter_by(module_id=...).delete()
DeleteAssignmentsOf(table, module_id) == {a \in table : a.module_id # module_id}

\* The explored runs store at most MaxModules modules.
MayCreateModule == Cardinality(DOMAIN absence_threshold) < MaxModules

\* admin.create_assignment (login_required, admin_required): the row is added
\* and committed without an existence check; an IntegrityError is not caught
\* by the view, the 500 handler of app.py rolls the session back.
create_assignment(cu, form_ok, professor_id, module_id, class_id, academic_year) ==
    /\ IF ~(is_authenticated(cu) /\ admin_required(cu))
       THEN response' = web_denied(cu) /\ UNCHANGED teaching_assignment
       ELSE IF ~form_ok
       THEN response' = flashed(Text(""), "none", 200) /\ UNCHANGED teaching_assignment
       ELSE LET row == NewAssignment(teaching_assignment, professor_id, module_id,
                                     class_id, academic_year)
            IN  IF unique_teaching(teaching_assignment, row)
                THEN /\ response' = error_page("web", 500)
                     /\ teaching_assignment' =
                            session_rollback(teaching_assignment, teaching_assignment \cup {row})
                ELSE /\ MayAssign(teaching_assignment, 1)
                     /\ teaching_assignment' = teaching_assignment \cup {row}
                     /\ response' = flashed(Text("Affectation créée avec succès!"), "success", 302)
    /\ UNCHANGED <<user, student_profile, professor_profile, staff_profile,
                   module_code, mail_thread, threshold_setting>>
    /\ UNCHANGED absence_vars

\* admin.create_module (login_required, admin_required): threshold is
\* absence_threshold_hours + absence_threshold_minutes / 60 in half hours,
\* professors is form.professors.data.
create_module(cu, form_ok, code, threshold, professors) ==
    /\ IF ~(is_authenticated(cu) /\ admin_required(cu))
       THEN /\ response' = web_denied(cu)
            /\ UNCHANGED <<absence_threshold, module_code, teaching_assignment>>
       ELSE IF ~form_ok
       THEN /\ response' = flashed(Text(""), "none", 200)
            /\ UNCHANGED <<absence_threshold, module_code, teaching_assignment>>
       ELSE IF ModuleByCode(code) # {}
       THEN /\ response' = flashed(Text("Ce code de module existe déjà."), "danger", 200)
            /\ UNCHANGED <<absence_threshold, module_code, teaching_assignment>>
       ELSE LET id == Cardinality(DOMAIN absence_threshold) + 1
                pairs == [i \in DOMAIN professors |-> <<professors[i], id>>]
            IN  /\ MayCreateModule
                /\ MayAssign(teaching_assignment, Len(professors))
                /\ absence_threshold' =
                        [m \in DOMAIN absence_threshold \cup {id} |->
                            IF m = id THEN threshold ELSE absence_threshold[m]]
                /\ module_code' =
                        [m \in DOMAIN module_code \cup {id} |->
                            IF m = id THEN code ELSE module_code[m]]
                /\ teaching_assignment' =
                        AddAssignments(teaching_assignment, pairs, CurrentYear)
                /\ response' = flashed(Text("Module créé avec succès!"), "success", 302)
    /\ UNCHANGED <<student_absence, professor_absence, inserted, outbox, error_log, req>>
    /\ UNCHANGED <<user, student_profile, professor_profile, staff_profile, mail_thread, threshold_setting>>

\* admin.edit_module (login_required, admin_required): the module's teaching
\* assignments are deleted and one row per selected professor is added.
edit_module(cu, id, form_ok, code, threshold, professors) ==
    /\ IF ~(is_authenticated(cu) /\ admin_required(cu))
       THEN /\ response' = web_denied(cu)
            /\ UNCHANGED <<absence_threshold, module_code, teaching_assignment>>
       ELSE IF id \notin DOMAIN absence_threshold
       THEN /\ response' = error_page("web", 404)
            /\ UNCHANGED <<absence_threshold, module_code, teaching_assignment>>
       ELSE IF ~form_ok
       THEN /\ response' = flashed(Text(""), "none", 200)
            /\ UNCHANGED <<absence_threshold, module_code, teaching_assignment>>
       ELSE IF ModuleByCode(code) \ {id} # {}
       THEN /\ response' = flashed(Text("Ce code de module existe déjà."), "danger", 200)
            /\ UNCHANGED <<absence_threshold, module_code, teaching_assignment>>
       ELSE LET pairs == [i \in DOMAIN professors |-> <<professors[i], id>>]
                kept == DeleteAssignmentsOf(teaching_assignment, id)
            IN  /\ MayAssign(kept, Len(professors))
                /\ absence_threshold' = [absence_threshold EXCEPT ![id] = threshold]
                /\ module_code' = [module_code EXCEPT ![id] = code]
                /\ teaching_assignment' = AddAssignments(kept, pairs, CurrentYear)
                /\ response' = flashed(Text("Module mis à jour avec succès!"), "success", 302)
    /\ UNCHANGED <<student_absence, professor_absence, inserted, outbox, error_log, req>>
    /\ UNCHANGED <<user, student_profile, professor_profile, staff_profile, mail_thread, threshold_setting>>

(* ---------------------------- specification ---------------------------- *)

\* What the absence_id of a toggle or delete request names: a stored row, or
\* no row at all.
NoAbsence ==
    [student_id |-> 0, module_id |-> 0, date |-> 0, hours |-> 0, is_justified |-> FALSE]

AbsenceTargets == student_absence \cup {NoAbsence}

\* The columns of the tables and the shape of the other variables.
TypeOK ==
    /\ absence_threshold \in [Modules -> Nat]
    /\ student_absence \subseteq
            [student_id : Students, module_id : Modules, date : Dates,
             hours : 1 .. MaxHours, is_justified : BOOLEAN]
    /\ professor_absence \subseteq
            [professor_id : Professors, date : Dates,
             hours : 1 .. MaxHours, is_justified : BOOLEAN]
    /\ inserted \in 0 .. MaxInserts
    /\ outbox \in [Students \X Modules \X EmailKinds -> 0 .. MaxInserts]
    /\ error_log \in 0 .. (2 * MaxInserts)
    /\ \A w \in Workers :
            /\ req[w].pc \in {"idle", "commit", "notify"}
            /\ req[w].result \in
                    {"none", "invalid", "not_found", "duplicate", "created", "error500"}

\* A user row as init_default_data (the super admin) or a creation form (the
\* others, who never logged in) leaves it.
SetupUser(id, email, role) ==
    [id |-> id, email |-> email, role |-> role, is_active |-> TRUE,
     is_first_login |-> role # SUPER_ADMIN,
     password_hash |-> generate_password_hash(
                            IF role = SUPER_ADMIN THEN "admin123" ELSE "generated"),
     initial_password |-> IF role = SUPER_ADMIN THEN "" ELSE "generated"]

\* The accounts of the school: the default super admin, one member of the
\* administrative staff, the professor and the two students of the absence
\* tables, created in this order through the creation forms.
SetupUsers ==
    {SetupUser(1, "admin@gestionscol.tn", SUPER_ADMIN),
     SetupUser(2, "staff@gestionscol.tn", ADMIN_STAFF),
     SetupUser(3, "prof@gestionscol.tn", PROFESSOR),
     SetupUser(4, "s1@gestionscol.tn", STUDENT),
     SetupUser(5, "s2@gestionscol.tn", STUDENT)}

SetupStudentProfiles ==
    {[id |-> 1, user_id |-> 4, number |-> "ETU001", class_id |-> 1],
     [id |-> 2, user_id |-> 5, number |-> "ETU002", class_id |-> 2]}

SetupProfessorProfiles ==
    {[id |-> 1, user_id |-> 3, number |-> "PROF001", class_id |-> 0]}

SetupStaffProfiles ==
    {[id |-> 1, user_id |-> 1, number |-> "ADMIN001", class_id |-> 0],
     [id |-> 2, user_id |-> 2, number |-> "STAFF001", class_id |-> 0]}

\* No threshold email was handed to a mail thread.
NoMailThread ==
    [k \in Students \X Modules \X EmailKinds |-> [attempts |-> 0, finished |-> 0]]

\* The database after create_all / init_default_data, the creation of the
\* accounts and the creation of the
\* modules through the module form: module 1 was given any threshold >= 0 the
\* form accepts, the other modules keep the column default; no absence is stored.
Init ==
    /\ \E t \in Thresholds :
            absence_threshold = [m \in Modules |-> IF m = 1 THEN t ELSE DefaultAbsenceThreshold]
    /\ student_absence = {}
    /\ professor_absence = {}
    /\ inserted = 0
    /\ outbox = [k \in Students \X Modules \X EmailKinds |-> 0]
    /\ error_log = 0
    /\ req = [w \in Workers |-> Idle("none")]
    /\ user = SetupUsers
    /\ student_profile = SetupStudentProfiles
    /\ professor_profile = SetupProfessorProfiles
    /\ staff_profile = SetupStaffProfiles
    /\ teaching_assignment = {}
    /\ module_code = SetupModuleCodes
    /\ response = NoResponse
    /\ mail_thread = NoMailThread
    /\ threshold_setting = {}

\* The inputs of the requests: every student, module, day, hours value and flag.
AllInputs ==
    [students |-> Students, modules |-> Modules,
     api_students |-> ApiStudentInputs, api_modules |-> ApiModuleInputs,
     professors |-> Professors, dates |-> Dates,
     hours |-> HoursInputs, justified |-> BOOLEAN]

\* The inputs of requests that race for the same keys: one student, one module.
RaceInputs ==
    [students |-> {1}, modules |-> {1},
     api_students |-> {1}, api_modules |-> {1},
     professors |-> Professors, dates |-> Dates,
     hours |-> 1 .. MaxHours, justified |-> {FALSE}]

\* The creation requests one worker handles, with inputs drawn from `in`.
Serve(w, in) ==
    \/ \E s \in in.students, m \in in.modules, d \in in.dates,
          h \in in.hours, j \in in.justified :
            admin_create_student_absence_check(w, s, m, d, h, j)
    \/ admin_create_student_absence_commit(w)
    \/ \E mail_ok \in BOOLEAN : admin_create_student_absence_notify(w, mail_ok)
    \/ \E s \in in.api_students, m \in in.api_modules, d \in in.dates,
          h \in in.hours, j \in in.justified :
            api_create_student_absence_check(w, s, m, d, h, j)
    \/ api_create_student_absence_commit(w)
    \/ \E mail_ok \in BOOLEAN : api_create_student_absence_notify(w, mail_ok)
    \/ \E p \in in.professors, d \in in.dates, h \in in.hours, j \in in.justified :
            admin_create_professor_absence_check(w, p, d, h, j)
    \/ admin_create_professor_absence_commit(w)

\* One creation request at a time; toggles, deletions and dashboard reads
\* arrive at any moment.
Next ==
    \/ Serve(1, AllInputs)
    \/ \E a \in AbsenceTargets : toggle_student_absence_justified(a)
    \/ \E a \in AbsenceTargets : delete_student_absence(a)
    \/ staff_dashboard

Spec == Init /\ [][Next]_vars

\* Creation requests handled by all workers at the same time: the steps of two
\* requests interleave between their database round trips.
NextConcurrent ==
    \/ \E w \in Workers : Serve(w, RaceInputs)
    \/ \E a \in AbsenceTargets : delete_student_absence(a)

SpecConcurrent == Init /\ [][NextConcurrent]_vars

(* ------------------------ accounts: specification ----------------------- *)

\* db.create_all() on a new database: every table is empty.
InitEmptyDatabase ==
    /\ absence_threshold = [m \in {} |-> 0]
    /\ student_absence = {}
    /\ professor_absence = {}
    /\ inserted = 0
    /\ outbox = [k \in Students \X Modules \X EmailKinds |-> 0]
    /\ error_log = 0
    /\ req = [w \in Workers |-> Idle("none")]
    /\ user = {}
    /\ student_profile = {}
    /\ professor_profile = {}
    /\ staff_profile = {}
    /\ teaching_assignment = {}
    /\ module_code = [m \in {} |-> ""]
    /\ response = NoResponse
    /\ mail_thread = NoMailThread
    /\ threshold_setting = {}

\* The email and student_id / employee_id fields of the creation requests; ""
\* is the missing field of an API request body.
EmailInputs == {"a@gestionscol.tn", "b@gestionscol.tn"}
NumberInputs == {"N1", "N2"}

\* The exception a try block raises, or none.
ExceptionInputs == Exceptions \cup {NoException}

\* The role field of an API request body: a role, no role, or an unknown one.
RoleInputs == UserRole_all \cup {"", "teacher"}

\* The lists a multi-select field over `choices` carries.
Selections(choices) ==
    UNION {[1 .. n -> choices] : n \in 0 .. MaxSelected}

\* current_user of a request: a stored user whose session is open, or nobody.
Sessions == user \cup {Anonymous}

\* The id a toggle request names: a stored user's, or the id of no row.
UserIdInputs == {u.id : u \in user} \cup {0}

\* The fields of a JSON object sent to POST /users: email and student_id /
\* employee_id, either of them possibly missing.
UserFieldInputs ==
    {<<email, number>> : email \in EmailInputs, number \in NumberInputs}
        \cup {<<"", "N1">>, <<"a@gestionscol.tn", "">>}

\* The application is started on a new database and accounts are created
\* through the admin forms and the API.
NextUsers ==
    \/ init_default_data
    \/ \E cu \in Sessions, form_ok \in BOOLEAN, email \in EmailInputs,
          number \in NumberInputs, exc \in ExceptionInputs :
            admin_create_student(cu, form_ok, email, number, 1, exc)
    \/ \E cu \in Sessions, form_ok \in BOOLEAN, email \in EmailInputs,
          number \in NumberInputs, exc \in ExceptionInputs :
            admin_create_professor(cu, form_ok, email, number, << >>, exc)
    \/ \E cu \in Sessions, form_ok \in BOOLEAN, email \in EmailInputs,
          number \in NumberInputs, exc \in ExceptionInputs :
            admin_create_staff(cu, form_ok, email, number, exc)
    \/ \E cu \in Sessions, body \in {"malformed", "empty"} :
            api_create_user(cu, body, "", "", "", NoException)
    \/ \E cu \in Sessions, role \in RoleInputs, fields \in UserFieldInputs,
          exc \in ExceptionInputs :
            api_create_user(cu, "object", role, fields[1], fields[2], exc)

SpecUsers == InitEmptyDatabase /\ [][NextUsers]_vars

\* The account-creation requests one session can send: the three web forms
\* and POST /api/v1/users, with the inputs of NextUsers.
AccountRequests(cu) ==
    \/ \E form_ok \in BOOLEAN, email \in EmailInputs, number \in NumberInputs,
          exc \in ExceptionInputs :
            \/ admin_create_student(cu, form_ok, email, number, 1, exc)
            \/ admin_create_professor(cu, form_ok, email, number, << >>, exc)
            \/ admin_create_staff(cu, form_ok, email, number, exc)
    \/ \E body \in {"malformed", "empty"} :
            api_create_user(cu, body, "", "", "", NoException)
    \/ \E role \in RoleInputs, fields \in UserFieldInputs, exc \in ExceptionInputs :
            api_create_user(cu, "object", role, fields[1], fields[2], exc)

\* The code field of a module form: a stored code or a new one.
ModuleCodeInputs == {"PROG1", "WEB"}

\* ProfessorProfile.id of the stored professors: the choices of the professor
\* fields.
ProfessorChoices == {p.id : p \in professor_profile}

\* The email and employee_id of the professor forms.
ProfessorFieldInputs == {<<"a@gestionscol.tn", "N1">>, <<"b@gestionscol.tn", "N2">>}

\* The code field of the edit form of module id: the module's code or PROG1.
EditCodeInputs(id) ==
    IF id \in DOMAIN module_code THEN {module_code[id], "PROG1"} ELSE {"PROG1"}

\* The application is started on a new database, professors and modules are
\* created and professors are assigned to modules and classes.
NextAssignments ==
    \/ init_default_data
    \/ \E cu \in Sessions, fields \in ProfessorFieldInputs,
          modules \in Selections(DOMAIN module_code),
          exc \in {NoException, "OperationalError: database is locked"} :
            admin_create_professor(cu, TRUE, fields[1], fields[2], modules, exc)
    \/ \E cu \in Sessions, form_ok \in BOOLEAN, professor_id \in ProfessorChoices,
          module_id \in DOMAIN module_code, class_id \in {0, 1} :
            create_assignment(cu, form_ok, professor_id, module_id, class_id, CurrentYear)
    \/ \E cu \in Sessions, form_ok \in BOOLEAN, code \in ModuleCodeInputs,
          professors \in Selections(ProfessorChoices) :
            create_module(cu, form_ok, code, DefaultAbsenceThreshold, professors)
    \/ \E cu \in Sessions, id \in DOMAIN module_code \cup {0}, form_ok \in BOOLEAN,
          professors \in Selections(ProfessorChoices) :
            \E code \in EditCodeInputs(id) :
                edit_module(cu, id, form_ok, code, DefaultAbsenceThreshold, professors)

SpecAssignments == InitEmptyDatabase /\ [][NextAssignments]_vars

(* ------------------- mail thread: utils/email_service.py ---------------- *)

\* The threads send_email started for key k that did not run to their end yet.
RunningThreads(k) == outbox[k] - mail_thread[k].finished

\* Mutant of send_async_email: a failed mail.send is tried again by the same
\* thread.
send_async_email_retrying(k, delivered) ==
    /\ RunningThreads(k) > 0
    /\ mail_thread[k].attempts <= MaxInserts
    /\ mail_thread' = [mail_thread EXCEPT
            ![k] = [attempts |-> @.attempts + 1,
                    finished |-> IF delivered THEN @.finished + 1 ELSE @.finished]]
    /\ error_log' = IF delivered THEN error_log ELSE error_log + 1
    /\ UNCHANGED <<absence_threshold, student_absence, professor_absence, inserted,
                   outbox, req>>
    /\ UNCHANGED <<user, student_profile, professor_profile, staff_profile,
                   teaching_assignment, module_code, response, threshold_setting>>

\* EmailService.send_async_email, the target of the thread send_email starts:
\* one mail.send(msg); delivered is whether it returns (TRUE) or raises (FALSE,
\* the except block logs the failure); the thread ends either way.
send_async_email(k, delivered) ==
    /\ RunningThreads(k) > 0
    /\ mail_thread' = [mail_thread EXCEPT
            ![k] = [attempts |-> @.attempts + 1, finished |-> @.finished + 1]]
    /\ error_log' = IF delivered THEN error_log ELSE error_log + 1
    /\ UNCHANGED <<absence_threshold, student_absence, professor_absence, inserted,
                   outbox, req>>
    /\ UNCHANGED <<user, student_profile, professor_profile, staff_profile,
                   teaching_assignment, module_code, response, threshold_setting>>

\* admin.create_student_absence after the commit, up to the return of
\* EmailService.send_threshold_* -> send_email: the thread is started
\* (thread.start()) and the handler goes on to build its response.
admin_create_student_absence_send(w) ==
    /\ req[w].pc = "notify"
    /\ req[w].op = "admin_student"
    /\ LET s == req[w].who
           m == req[w].module_id
           status == check_threshold_status(student_absence, absence_threshold, s, m)
       IN  outbox' = IF status \in EmailKinds THEN Mailed(s, m, status) ELSE outbox
    /\ req' = [req EXCEPT ![w].pc = "respond"]
    /\ UNCHANGED <<absence_threshold, student_absence, professor_absence, inserted,
                   error_log>>
    /\ UNCHANGED directory_vars

\* admin.create_student_absence, flash('Absence enregistrée avec succès!') and
\* the redirect: the response of the request.
admin_create_student_absence_respond(w) ==
    /\ req[w].pc = "respond"
    /\ req' = [req EXCEPT ![w] = Idle("created")]
    /\ response' = flashed(Text("Absence enregistrée avec succès!"), "success", 302)
    /\ UNCHANGED <<absence_threshold, student_absence, professor_absence, inserted,
                   outbox, error_log>>
    /\ UNCHANGED <<user, student_profile, professor_profile, staff_profile,
                   teaching_assignment, module_code, mail_thread, threshold_setting>>

\* The keys of the threshold mails.
MailKeys == Students \X Modules \X EmailKinds

\* The steps of the handler that serves the absence form as worker w, once a
\* request was accepted.
HandlerSteps(w) ==
    \/ admin_create_student_absence_commit(w)
    \/ admin_create_student_absence_send(w)
    \/ admin_create_student_absence_respond(w)

\* Absences of student 1 in module 1 are recorded through the admin form
\* while the mail threads run at their own pace.
NextMail ==
    \/ \E d \in Dates, h \in 1 .. MaxHours :
            admin_create_student_absence_check(1, 1, 1, d, h, FALSE)
    \/ HandlerSteps(1)
    \/ \E k \in MailKeys, delivered \in BOOLEAN : send_async_email(k, delivered)

\* The server thread of a request keeps running; nothing is assumed of the
\* mail threads, which may be delayed for ever.
SpecMail == Init /\ [][NextMail]_vars /\ WF_vars(HandlerSteps(1))

(* -------------------- web form and API side by side --------------------- *)

\* The hours of the absence requests: missing, half an hour, and half an hour
\* more than the 12 hours the form allows.
MirrorHours == {0, 1, FormMaxHours + 1}

\* The same absences are submitted through the admin form and through
\* POST /api/v1/absences/students.
NextMirror ==
    \/ \E s \in Students, d \in Dates, h \in MirrorHours, j \in BOOLEAN :
            admin_create_student_absence_check(1, s, 1, d, h, j)
    \/ admin_create_student_absence_commit(1)
    \/ \E mail_ok \in BOOLEAN : admin_create_student_absence_notify(1, mail_ok)
    \/ \E s \in Students, d \in Dates, h \in MirrorHours, j \in BOOLEAN :
            api_create_student_absence_check(1, s, 1, d, h, j)
    \/ api_create_student_absence_commit(1)
    \/ \E mail_ok \in BOOLEAN : api_create_student_absence_notify(1, mail_ok)

SpecMirror == Init /\ [][NextMirror]_vars

(* ------------------- absences of a student: routes/api.py --------------- *)

\* The response of api_login_required when it stops the request; NoResponse
\* when the handler runs.
api_login_required(cu) ==
    IF ~is_authenticated(cu)
    THEN api_denied("Authentication required", "Veuillez vous connecter.", 401)
    ELSE IF ~cu.is_active
    THEN api_denied("Account disabled", "Votre compte est désactivé.", 403)
    ELSE NoResponse

\* StudentProfile.query.get(student_id): the rows with the id.
StudentById(student_id) == {p \in student_profile : p.id = student_id}

\* Mutant of class_ids: every class counts as taught by the professor.
class_ids_all(professor) == Classes

\* [a.class_id for a in professor.teaching_assignments if a.class_id]
class_ids(professor) ==
    {a.class_id : a \in {t \in teaching_assignment :
                            t.professor_id = professor.id /\ t.class_id # 0}}

\* success_response({'absences': ..., 'total_hours': ..., 'count': ...}) built
\* from StudentAbsence.query.filter_by(student_id=student_id): the records of
\* that student.
absences_response(student_id) ==
    [route |-> "api", status |-> 200, kind |-> "json",
     body |-> [k \in {"success", "data"} |->
                  IF k = "success" THEN Text("true")
                  ELSE <<"absences of student", ToString(student_id)>>]]

\* api.get_student_absences (api_login_required): the student is looked up
\* first, then the permission of the student and professor roles is checked.
get_student_absences(cu, student_id) ==
    /\ LET gate == api_login_required(cu)
           denied == error_response(Text("Accès non autorisé"), "AuthorizationError", 403, NoKwargs)
       IN  IF gate # NoResponse THEN response' = gate
           ELSE IF StudentById(student_id) = {}
           THEN response' = error_response(Text("Étudiant non trouvé"), "NotFoundError", 404, NoKwargs)
           ELSE LET student == CHOOSE p \in StudentById(student_id) : TRUE
                IN  IF /\ cu.role = STUDENT
                       /\ ProfilesOf(student_profile, cu) # {}
                       /\ \A p \in ProfilesOf(student_profile, cu) : p.id # student_id
                    THEN response' = denied
                    ELSE IF /\ cu.role = PROFESSOR
                            /\ ProfilesOf(professor_profile, cu) # {}
                            /\ \A p \in ProfilesOf(professor_profile, cu) :
                                    student.class_id \notin class_ids(p)
                    THEN response' = denied
                    ELSE response' = absences_response(student_id)
    /\ UNCHANGED absence_vars
    /\ UNCHANGED <<user, student_profile, professor_profile, staff_profile,
                   teaching_assignment, module_code, mail_thread, threshold_setting>>

\* The student id of a request path: a stored profile's, or the id of no row.
StudentIdInputs == {p.id : p \in student_profile} \cup {3}

\* The staff assigns the professor to modules and classes and (de)activates
\* accounts while users of every role ask for the absences of the students.
NextAccess ==
    \/ \E cu \in Sessions, student_id \in StudentIdInputs :
            get_student_absences(cu, student_id)
    \/ \E cu \in Sessions, professor_id \in ProfessorChoices,
          module_id \in Modules, class_id \in {0} \cup Classes :
            create_assignment(cu, TRUE, professor_id, module_id, class_id, CurrentYear)
    \/ \E cu \in Sessions, user_id \in {3, 4} : api_toggle_user_status(cu, user_id)

SpecAccess == Init /\ [][NextAccess]_vars

(* --------------------- role gates: specification ------------------------ *)

\* login_required + admin_required in front of a handler of the admin
\* blueprint: the handler runs, or the request ends at the decorator.
web_gated(cu, handler) ==
    IF is_authenticated(cu) /\ admin_required(cu)
    THEN handler
    ELSE /\ response' = web_denied(cu)
         /\ UNCHANGED absence_vars
         /\ UNCHANGED <<user, student_profile, professor_profile, staff_profile,
                        teaching_assignment, module_code, mail_thread, threshold_setting>>

\* api_login_required + api_role_required(SUPER_ADMIN, ADMIN_STAFF) in front of
\* an API handler.
api_gated(cu, handler) ==
    LET gate == api_gate({SUPER_ADMIN, ADMIN_STAFF}, cu)
    IN  IF gate = NoResponse
        THEN handler
        ELSE /\ response' = gate
             /\ UNCHANGED absence_vars
             /\ UNCHANGED <<user, student_profile, professor_profile, staff_profile,
                            teaching_assignment, module_code, mail_thread, threshold_setting>>

\* The school with its super admin and one student of class 1, who was
\* created through the student form.
GatedUsers ==
    {SetupUser(1, "admin@gestionscol.tn", SUPER_ADMIN),
     SetupUser(2, "s1@gestionscol.tn", STUDENT)}

InitGated ==
    /\ absence_threshold = [m \in Modules |-> DefaultAbsenceThreshold]
    /\ student_absence = {}
    /\ professor_absence = {}
    /\ inserted = 0
    /\ outbox = [k \in Students \X Modules \X EmailKinds |-> 0]
    /\ error_log = 0
    /\ req = [w \in Workers |-> Idle("none")]
    /\ user = GatedUsers
    /\ student_profile = {[id |-> 1, user_id |-> 2, number |-> "ETU001", class_id |-> 1]}
    /\ professor_profile = {}
    /\ staff_profile = {[id |-> 1, user_id |-> 1, number |-> "ADMIN001", class_id |-> 0]}
    /\ teaching_assignment = {}
    /\ module_code = SetupModuleCodes
    /\ response = NoResponse
    /\ mail_thread = NoMailThread
    /\ threshold_setting = {}

\* The requests user cu sends to the admin blueprint and to the mutating API
\* endpoints, each behind its decorators.
GatedRequests(cu) ==
    \/ web_gated(cu, admin_create_student_absence_check(1, 1, 1, 1, 1, FALSE))
    \/ api_gated(cu, api_create_student_absence_check(1, 1, 1, 2, 1, FALSE))
    \/ \E a \in AbsenceTargets : web_gated(cu, toggle_student_absence_justified(a))
    \/ \E a \in AbsenceTargets : api_gated(cu, toggle_student_absence_justified(a))
    \/ \E a \in AbsenceTargets : web_gated(cu, delete_student_absence(a))
    \/ \E a \in AbsenceTargets : api_gated(cu, delete_student_absence(a))
    \/ api_create_user(cu, "object", PROFESSOR, "a@gestionscol.tn", "N1", NoException)
    \/ admin_create_student(cu, TRUE, "a@gestionscol.tn", "N1", 1, NoException)
    \/ admin_create_staff(cu, TRUE, "a@gestionscol.tn", "N1", NoException)
    \/ \E id \in {0, 2} : admin_toggle_user_status(cu, id)
    \/ \E id \in {0, 2} : api_toggle_user_status(cu, id)
    \/ \E professor_id \in ProfessorChoices :
            create_assignment(cu, TRUE, professor_id, 1, 1, CurrentYear)
    \/ edit_module(cu, 2, TRUE, "PROG2", 1, << >>)

\* Requests of every session, and the later steps of the absence requests
\* that passed their decorators.
NextGated ==
    \/ \E cu \in Sessions : GatedRequests(cu)
    \/ admin_create_student_absence_commit(1)
    \/ admin_create_student_absence_notify(1, TRUE)
    \/ api_create_student_absence_commit(1)
    \/ api_create_student_absence_notify(1, TRUE)

SpecGated == InitGated /\ [][NextGated]_vars

\* The current passwords a change-password form carries.
PasswordInputs == {"admin123", "generated", "new-secret"}

\* The new passwords a change-password form carries.
NewPasswordInputs == {"generated", "new-secret"}

\* The users of the school change their passwords.
NextPassword ==
    \E cu \in Sessions, form_ok \in BOOLEAN,
       current_password \in PasswordInputs, new_password \in NewPasswordInputs :
        change_password(cu, form_ok, current_password, new_password)

SpecPassword == Init /\ [][NextPassword]_vars

\* The accounts of the school are activated and deactivated through the admin
\* page and the API.
NextToggle ==
    \/ \E cu \in Sessions, id \in UserIdInputs : admin_toggle_user_status(cu, id)
    \/ \E cu \in Sessions, user_id \in UserIdInputs : api_toggle_user_status(cu, user_id)

SpecToggle == Init /\ [][NextToggle]_vars

(* ----------------------- forgot password: routes/auth.py ---------------- *)

\* str.lower() on the addresses a forgot-password form carries.
lower(email) ==
    IF email = "S1@GestionScol.tn" THEN "s1@gestionscol.tn"
    ELSE IF email = "Nobody@GestionScol.tn" THEN "nobody@gestionscol.tn"
    ELSE email

\* redirect(url_for(endpoint)) with nothing flashed.
redirected(endpoint) ==
    [route |-> "web", status |-> 302, kind |-> "html",
     body |-> [k \in {"location"} |-> Text(endpoint)]]

\* flash(message, category) followed by redirect(url_for(endpoint)).
flashed_redirect(message, category, endpoint) ==
    [route |-> "web", status |-> 302, kind |-> "html",
     body |-> [k \in {"flash", "category", "location"} |->
                  IF k = "flash" THEN message
                  ELSE IF k = "category" THEN Text(category)
                  ELSE Text(endpoint)]]

\* render_template(template) with nothing flashed.
rendered(template) ==
    [route |-> "web", status |-> 200, kind |-> "html",
     body |-> [k \in {"template"} |-> Text(template)]]

\* Mutant of forgot_password: an address of no user is answered with an error.
forgot_password_telling(cu, form_ok, email) ==
    /\ IF is_authenticated(cu)
       THEN response' = redirected("main.dashboard")
       ELSE IF ~form_ok
       THEN response' = rendered("auth/forgot_password.html")
       ELSE IF UserByEmail(lower(email)) = {}
       THEN response' = flashed_redirect(Text("Aucun compte avec cet email."),
                                         "danger", "auth.forgot_password")
       ELSE response' = flashed_redirect(
                Text("Si cet email existe, un lien de réinitialisation a été envoyé."),
                "info", "auth.login")
    /\ UNCHANGED <<user, student_profile, professor_profile, staff_profile,
                   teaching_assignment, module_code, mail_thread, threshold_setting>>
    /\ UNCHANGED absence_vars

\* auth.forgot_password: form_ok is form.validate_on_submit(). The user is
\* looked up by the lower-cased address and nothing is done with the row (the
\* branch of a found user is `pass`: no token is stored and no mail is sent).
forgot_password(cu, form_ok, email) ==
    /\ IF is_authenticated(cu)
       THEN response' = redirected("main.dashboard")
       ELSE IF ~form_ok
       THEN response' = rendered("auth/forgot_password.html")
       ELSE LET found == UserByEmail(lower(email))
            IN  IF found # {}
                THEN response' = flashed_redirect(
                        Text("Si cet email existe, un lien de réinitialisation a été envoyé."),
                        "info", "auth.login")
                ELSE response' = flashed_redirect(
                        Text("Si cet email existe, un lien de réinitialisation a été envoyé."),
                        "info", "auth.login")
    /\ UNCHANGED <<user, student_profile, professor_profile, staff_profile,
                   teaching_assignment, module_code, mail_thread, threshold_setting>>
    /\ UNCHANGED absence_vars

\* The addresses a forgot-password form carries: a stored user's, in the
\* stored and in another case, and addresses of no user.
ForgotEmailInputs ==
    {"s1@gestionscol.tn", "S1@GestionScol.tn", "admin@gestionscol.tn",
     "nobody@gestionscol.tn", "Nobody@GestionScol.tn"}

\* Password resets are asked for while the administrators activate and
\* deactivate accounts.
NextForgot ==
    \/ \E cu \in Sessions, form_ok \in BOOLEAN, email \in ForgotEmailInputs :
            forgot_password(cu, form_ok, email)
    \/ \E cu \in Sessions, id \in UserIdInputs : admin_toggle_user_status(cu, id)

SpecForgot == Init /\ [][NextForgot]_vars

(* ------------------- threshold settings: routes/admin.py ---------------- *)

\* A field of request.form: absent, a text that int() accepts, or another text.
FormMissing == [kind |-> "missing", int |-> 0, text |-> ""]
FormInt(n) == [kind |-> "int", int |-> n, text |-> ToString(n)]
FormText(t) == [kind |-> "text", int |-> 0, text |-> t]

\* request.form.get(key, default): the submitted text, the default for an
\* absent key.
form_get(raw, default) == IF raw.kind = "missing" THEN default ELSE raw.text

\* request.form.get(key, default, type=int): int(value), the default for an
\* absent key or a value int() raises ValueError on.
form_get_int(raw, default) == IF raw.kind = "int" THEN raw.int ELSE default

\* ThresholdSetting.get_total_hours()
get_total_hours(setting) == (setting.threshold_days * 8) + setting.threshold_hours

\* admin.update_threshold (login_required, admin_required): the four fields
\* are read from request.form, not through ThresholdSettingForm; the only
\* test is on both numbers being 0; the setting of the type is updated, or
\* created when there is none.
update_threshold(cu, raw_type, raw_days, raw_hours, raw_warning) ==
    /\ IF ~(is_authenticated(cu) /\ admin_required(cu))
       THEN response' = web_denied(cu) /\ UNCHANGED threshold_setting
       ELSE LET setting_type == form_get(raw_type, "professor_global")
                threshold_days == form_get_int(raw_days, 0)
                threshold_hours == form_get_int(raw_hours, 0)
                warning_percentage == form_get_int(raw_warning, 50)
                setting == {s \in threshold_setting : s.setting_type = setting_type}
            IN  IF threshold_days = 0 /\ threshold_hours = 0
                THEN /\ response' = flashed_redirect(Text("Le seuil doit être supérieur à 0."),
                                                     "danger", "admin.threshold_settings")
                     /\ UNCHANGED threshold_setting
                ELSE /\ threshold_setting' =
                            IF setting # {}
                            THEN LET old == CHOOSE s \in setting : TRUE
                                 IN  (threshold_setting \ {old}) \cup
                                        {[old EXCEPT !.threshold_days = threshold_days,
                                                     !.threshold_hours = threshold_hours,
                                                     !.warning_percentage = warning_percentage,
                                                     !.updated_by_id = cu.id]}
                            ELSE threshold_setting \cup
                                    {[id |-> NextId(threshold_setting),
                                      setting_type |-> setting_type,
                                      threshold_days |-> threshold_days,
                                      threshold_hours |-> threshold_hours,
                                      warning_percentage |-> warning_percentage,
                                      updated_by_id |-> cu.id]}
                     /\ response' = flashed_redirect(Text("Seuil mis à jour avec succès!"),
                                                     "success", "admin.threshold_settings")
    /\ UNCHANGED <<user, student_profile, professor_profile, staff_profile,
                   teaching_assignment, module_code, mail_thread>>
    /\ UNCHANGED absence_vars

\* The fields an update request carries: a type or none, days and hours as
\* signed numbers, as a text that is no number, or not at all.
ThresholdInputs ==
    [types |-> {FormMissing, FormText("student_module")},
     days |-> {FormInt(0 - 1), FormInt(0), FormInt(1), FormText("abc")},
     hours |-> {FormMissing, FormInt(8)},
     warnings |-> {FormMissing, FormInt(80)}]

\* The threshold settings are updated by whoever sends the request.
NextThreshold ==
    \E cu \in Sessions, raw_type \in ThresholdInputs.types, raw_days \in ThresholdInputs.days,
       raw_hours \in ThresholdInputs.hours, raw_warning \in ThresholdInputs.warnings :
        update_threshold(cu, raw_type, raw_days, raw_hours, raw_warning)

SpecThreshold == Init /\ [][NextThreshold]_vars

(* ------------------ toggle_user_status, request by request -------------- *)

\* Mutant of toggle_user_status_load: the test that keeps a user who is not a
\* super admin from changing a super admin is missing.
toggle_user_status_load_unprotected(w, cu, route, id) ==
    /\ req[w].pc = "idle"
    /\ LET target == UserById(id)
           refused ==
               IF route = "web"
               THEN IF ~(is_authenticated(cu) /\ admin_required(cu)) THEN web_denied(cu)
                    ELSE IF target = {} THEN error_page("web", 404)
                    ELSE IF id = cu.id
                    THEN flashed(Text("Vous ne pouvez pas désactiver votre propre compte."), "danger", 302)
                    ELSE NoResponse
               ELSE IF api_gate({SUPER_ADMIN, ADMIN_STAFF}, cu) # NoResponse
                    THEN api_gate({SUPER_ADMIN, ADMIN_STAFF}, cu)
                    ELSE IF target = {}
                    THEN error_response(Text("Utilisateur non trouvé"), "NotFoundError", 404, NoKwargs)
                    ELSE IF id = cu.id
                    THEN error_response(Text("Vous ne pouvez pas modifier votre propre statut"),
                                        "ValidationError", 400, NoKwargs)
                    ELSE NoResponse
       IN  IF refused # NoResponse
           THEN response' = refused /\ UNCHANGED req
           ELSE /\ req' = [req EXCEPT ![w] =
                        Pending("commit", route, id, 0, 0, 0,
                                (CHOOSE u \in target : TRUE).is_active)]
                /\ UNCHANGED response
    /\ UNCHANGED <<user, student_profile, professor_profile, staff_profile,
                   teaching_assignment, module_code, mail_thread, threshold_setting>>
    /\ UNCHANGED <<absence_threshold, student_absence, professor_absence,
                   inserted, outbox, error_log>>

\* admin.toggle_user_status (route "web") and api.toggle_user_status (route
\* "api") up to the assignment: the decorators, the query for the user and the
\* two tests. A request that passes them holds the row it has read; the
\* is_active value of that row is kept in the flag of the pending request.
toggle_user_status_load(w, cu, route, id) ==
    /\ req[w].pc = "idle"
    /\ LET target == UserById(id)
           protected == \E u \in target : u.role = SUPER_ADMIN /\ cu.role # SUPER_ADMIN
           refused ==
               IF route = "web"
               THEN IF ~(is_authenticated(cu) /\ admin_required(cu)) THEN web_denied(cu)
                    ELSE IF target = {} THEN error_page("web", 404)
                    ELSE IF id = cu.id
                    THEN flashed(Text("Vous ne pouvez pas désactiver votre propre compte."), "danger", 302)
                    ELSE IF protected
                    THEN flashed(Text("Seul un super administrateur peut modifier un autre super administrateur."), "danger", 302)
                    ELSE NoResponse
               ELSE IF api_gate({SUPER_ADMIN, ADMIN_STAFF}, cu) # NoResponse
                    THEN api_gate({SUPER_ADMIN, ADMIN_STAFF}, cu)
                    ELSE IF target = {}
                    THEN error_response(Text("Utilisateur non trouvé"), "NotFoundError", 404, NoKwargs)
                    ELSE IF id = cu.id
                    THEN error_response(Text("Vous ne pouvez pas modifier votre propre statut"),
                                        "ValidationError", 400, NoKwargs)
                    ELSE IF protected
                    THEN error_response(Text("Permission refusée"), "AuthorizationError", 403, NoKwargs)
                    ELSE NoResponse
       IN  IF refused # NoResponse
           THEN response' = refused /\ UNCHANGED req
           ELSE /\ req' = [req EXCEPT ![w] =
                        Pending("commit", route, id, 0, 0, 0,
                                (CHOOSE u \in target : TRUE).is_active)]
                /\ UNCHANGED response
    /\ UNCHANGED <<user, student_profile, professor_profile, staff_profile,
                   teaching_assignment, module_code, mail_thread, threshold_setting>>
    /\ UNCHANGED <<absence_threshold, student_absence, professor_absence,
                   inserted, outbox, error_log>>

\* user.is_active = not user.is_active; db.session.commit() and the response:
\* the UPDATE writes the negation of the value the request has read.
toggle_user_status_commit(w) ==
    /\ req[w].pc = "commit"
    /\ req[w].op \in {"web", "api"}
    /\ user' = {IF u.id = req[w].who THEN [u EXCEPT !.is_active = ~req[w].is_justified]
                ELSE u : u \in user}
    /\ response' =
            IF req[w].op = "web"
            THEN flashed(<<"Compte ", ActiveWord(~req[w].is_justified), " avec succès.">>,
                         "success", 302)
            ELSE success_response(<<"Utilisateur ", ActiveWord(~req[w].is_justified)>>, 200)
    /\ req' = [req EXCEPT ![w] = Idle("none")]
    /\ UNCHANGED <<student_profile, professor_profile, staff_profile,
                   teaching_assignment, module_code, mail_thread, threshold_setting>>
    /\ UNCHANGED <<absence_threshold, student_absence, professor_absence,
                   inserted, outbox, error_log>>

\* Toggle requests of the logged-in users, handled by two workers at a time.
NextToggleConcurrent ==
    \E w \in Workers :
        \/ \E cu \in user, route \in {"web", "api"}, id \in UserIdInputs :
                toggle_user_status_load(w, cu, route, id)
        \/ toggle_user_status_commit(w)

SpecToggleConcurrent == Init /\ [][NextToggleConcurrent]_vars

(* ------------------------ first login: check_first_login ---------------- *)

\* check_first_login in front of an endpoint other than auth.change_password:
\* whether the decorator answers the request itself.
check_first_login(cu) == is_authenticated(cu) /\ cu.is_first_login

\* The answer of check_first_login when it stops a request.
first_login_redirect ==
    flashed_redirect(Text("Veuillez changer votre mot de passe initial."),
                     "warning", "auth.change_password")

\* main.dashboard (login_required, check_first_login): a redirect to the
\* dashboard of the role; nothing is written.
dashboard(cu) ==
    /\ response' =
            IF ~is_authenticated(cu) THEN web_denied(cu)
            ELSE IF check_first_login(cu) THEN first_login_redirect
            ELSE IF cu.role = SUPER_ADMIN THEN redirected("admin.super_admin_dashboard")
            ELSE IF cu.role = ADMIN_STAFF THEN redirected("admin.staff_dashboard")
            ELSE IF cu.role = PROFESSOR THEN redirected("professor.dashboard")
            ELSE IF cu.role = STUDENT THEN redirected("student.dashboard")
            ELSE flashed_redirect(Text("Rôle inconnu."), "danger", "main.landing")
    /\ UNCHANGED <<user, student_profile, professor_profile, staff_profile,
                   teaching_assignment, module_code, mail_thread, threshold_setting>>
    /\ UNCHANGED absence_vars

\* The users, who were given generated passwords, open their dashboards,
\* change their passwords and use the account administration.
NextFirstLogin ==
    \/ \E cu \in Sessions : dashboard(cu)
    \/ \E cu \in Sessions : change_password(cu, TRUE, "generated", "new-secret")
    \/ \E cu \in Sessions, id \in UserIdInputs : admin_toggle_user_status(cu, id)
    \/ \E cu \in Sessions, user_id \in UserIdInputs : api_toggle_user_status(cu, user_id)

SpecFirstLogin == Init /\ [][NextFirstLogin]_vars

(* ------------------------------- claims -------------------------------- *)

\* The student's unjustified hours for the module, counted row by row.
UnjustifiedHours(s, m) ==
    get_total_absence_hours(student_absence, s, m, FALSE)

StatusNow(s, m) ==
    check_threshold_status(student_absence, absence_threshold, s, m)

\* C1: for every student and module, the status is 'exceeded' iff the
\* unjustified hours are >= the module's threshold, 'warning' iff
\* threshold * 0.5 <= hours < threshold, and 'ok' otherwise; with a threshold of
\* 10 hours, 5 hours give 'warning' and 10 hours give 'exceeded' (20, 10 and 20
\* half hours).
C1_StatusMatchesThreshold ==
    /\ \A s \in Students, m \in Modules :
         LET hours == UnjustifiedHours(s, m)
             threshold == absence_threshold[m]
             status == StatusNow(s, m)
         IN  /\ (status = "exceeded") <=> (hours >= threshold)
             /\ (status = "warning") <=> (threshold <= 2 * hours /\ hours < threshold)
             /\ (status = "ok") <=> (2 * hours < threshold)
    /\ StatusOf(10, 20) = "warning"
    /\ StatusOf(20, 20) = "exceeded"

\* C1 witness: for a module with a positive threshold one student is at
\* 'warning' and another at 'exceeded'.
C1_Witness ==
    \E s1 \in Students, s2 \in Students, m \in Modules :
        /\ absence_threshold[m] > 0
        /\ StatusNow(s1, m) = "warning"
        /\ StatusNow(s2, m) = "exceeded"

\* C2: for a module whose absence_threshold is 0 the status is 'ok' for every
\* student and every set of absence records, never 'warning' or 'exceeded'.
C2_ZeroThresholdAlwaysOk ==
    \A s \in Students, m \in Modules :
        absence_threshold[m] = 0 => StatusNow(s, m) = "ok"

\* C3: over any sequence of student-absence creations, at most one warning email
\* and at most one exceeded email are sent for one (student, module) pair.
C3_AtMostOneEmailPerKind ==
    \A s \in Students, m \in Modules, kind \in EmailKinds :
        outbox[<<s, m, kind>>] <= 1

\* C4: a creation request (web or API) whose (student, module, date) equals that
\* of a stored absence is answered as a duplicate, leaves the absence records
\* unchanged and sends no email.
C4_DuplicateRejected ==
    \A w \in Workers :
        req[w].pc = "idle" =>
            \A a \in student_absence, h \in 1 .. MaxHours, j \in BOOLEAN :
                /\ ~ENABLED ( /\ admin_create_student_absence_check(
                                    w, a.student_id, a.module_id, a.date, h, j)
                              /\ ~( /\ req'[w].pc = "idle"
                                    /\ req'[w].result = "duplicate"
                                    /\ student_absence' = student_absence
                                    /\ outbox' = outbox ) )
                /\ ~ENABLED ( /\ api_create_student_absence_check(
                                    w, a.student_id, a.module_id, a.date, h, j)
                              /\ ~( /\ req'[w].pc = "idle"
                                    /\ req'[w].result = "duplicate"
                                    /\ student_absence' = student_absence
                                    /\ outbox' = outbox ) )

\* C4 witness: a request was answered as a duplicate while an absence is stored.
C4_Witness ==
    \E w \in Workers : req[w].result = "duplicate" /\ student_absence # {}

\* C5: at most one StudentAbsence per (student, module, date) and at most one
\* ProfessorAbsence per (professor, date) in every reachable state, also when
\* two creation requests with the same key both pass the existence check before
\* either commits.
C5_OneAbsencePerKey ==
    /\ \A a \in student_absence, b \in student_absence :
         (a.student_id = b.student_id /\ a.module_id = b.module_id /\ a.date = b.date)
            => a = b
    /\ \A a \in professor_absence, b \in professor_absence :
         (a.professor_id = b.professor_id /\ a.date = b.date) => a = b

\* C5 witness: two requests with the same key passed the existence check and
\* the one that committed second was refused by the database.
C5_Witness ==
    \E w \in Workers :
        /\ req[w].result = "error500"
        /\ student_absence \cup professor_absence # {}

\* C6: when sending the threshold email fails during student-absence creation,
\* the committed absence stays persisted, the failure is only logged and the
\* request is still answered as a success.
C6_MailFailureSwallowed ==
    [][\A w \in Workers :
            ( /\ req[w].pc = "notify"
              /\ req'[w].pc # "notify"
              /\ StatusNow(req[w].who, req[w].module_id) \in EmailKinds
              /\ outbox' = outbox )
            => /\ req'[w].result = "created"
               /\ error_log' = error_log + 1
               /\ student_absence' = student_absence]_vars

\* C6 witness: a creation was answered as a success, its email failure was
\* logged, no email went out and the absence is stored.
C6_Witness ==
    \E w \in Workers :
        /\ req[w].result = "created"
        /\ error_log > 0
        /\ \A k \in DOMAIN outbox : outbox[k] = 0
        /\ student_absence # {}

\* C7: threshold emails are sent only by the student-absence creation
\* operations; toggling the justified flag, deleting an absence and the
\* dashboard never send one, whatever status results.
C7_OnlyCreationMails ==
    [][outbox' # outbox =>
            \E w \in Workers :
                /\ req[w].pc = "notify"
                /\ req[w].op \in {"admin_student", "api_student"}
                /\ req'[w].result = "created"
                /\ student_absence' = student_absence]_vars

\* C7 witness: a toggle brought a student to 'warning' or 'exceeded' for a
\* module with a positive threshold and no email was sent or attempted.
C7_Witness ==
    \E s \in Students, m \in Modules :
        /\ absence_threshold[m] > 0
        /\ StatusNow(s, m) \in EmailKinds
        /\ \A k \in DOMAIN outbox : outbox[k] = 0
        /\ error_log = 0
        /\ \A w \in Workers : req[w].pc = "idle"

\* C8: creating a student absence with is_justified = true never sends a
\* threshold email.
C8_JustifiedCreationSendsNothing ==
    [][\A w \in Workers :
            (req[w].pc = "notify" /\ req[w].is_justified) => outbox' = outbox]_vars

RECURSIVE HoursUpTo(_, _)
\* The sum of hours over the rows of `rows` whose hours are at most h, counted
\* per hours value.
HoursUpTo(rows, h) ==
    IF h = 0 THEN 0
    ELSE h * Cardinality({a \in rows : a.hours = h}) + HoursUpTo(rows, h - 1)

HoursByValue(rows) == HoursUpTo(rows, MaxHours)

\* C9: get_total_absence_hours is the sum of hours over exactly the matching
\* records: those of the student (of the module when a module filter is given),
\* without the justified ones unless count_justified; for a professor the sum
\* over the professor's records with the same rule.
C9_TotalIsSumOfMatching ==
    /\ \A s \in Students, m \in Modules \cup {0}, cj \in BOOLEAN :
         get_total_absence_hours(student_absence, s, m, cj) =
            HoursByValue({a \in student_absence :
                            /\ a.student_id = s
                            /\ (m # 0 => a.module_id = m)
                            /\ (a.is_justified => cj)})
    /\ \A p \in Professors, cj \in BOOLEAN :
         professor_get_total_absence_hours(professor_absence, p, cj) =
            HoursByValue({a \in professor_absence :
                            a.professor_id = p /\ (a.is_justified => cj)})

\* C9 witness: one student has a justified absence in one module and an
\* unjustified one in another.
C9_Witness ==
    \E a \in student_absence, b \in student_absence :
        /\ a.student_id = b.student_id
        /\ a.module_id # b.module_id
        /\ a.is_justified /\ ~b.is_justified

Rank(status) == CASE status = "ok" -> 0 [] status = "warning" -> 1 [] status = "exceeded" -> 2

\* C10: for a fixed module threshold and two totals h1 <= h2 the status for h1
\* is never more severe than the status for h2 (ok < warning < exceeded).
C10_StatusMonotonic ==
    /\ \A s1 \in Students, s2 \in Students, m \in Modules :
         UnjustifiedHours(s1, m) <= UnjustifiedHours(s2, m)
            => Rank(StatusNow(s1, m)) <= Rank(StatusNow(s2, m))
    /\ \A m \in Modules, h1 \in 0 .. (MaxHours * MaxInserts), h2 \in 0 .. (MaxHours * MaxInserts) :
         h1 <= h2 => Rank(StatusOf(h1, absence_threshold[m]))
                        <= Rank(StatusOf(h2, absence_threshold[m]))

\* C10 witness: two students with different unjustified totals for one module
\* have different statuses.
C10_Witness ==
    \E s1 \in Students, s2 \in Students, m \in Modules :
        /\ 0 < UnjustifiedHours(s1, m)
        /\ UnjustifiedHours(s1, m) < UnjustifiedHours(s2, m)
        /\ StatusNow(s1, m) # StatusNow(s2, m)

\* The profile rows of user u, over the three profile tables.
ProfileCount(u) ==
    Cardinality(ProfilesOf(student_profile, u))
    + Cardinality(ProfilesOf(professor_profile, u))
    + Cardinality(ProfilesOf(staff_profile, u))

\* C11: after any sequence of user creations (init_default_data, the three
\* admin forms, POST /users), failed ones included, every stored user owns
\* exactly one profile row and it is in the table of the user's role: student
\* profile for student, professor profile for professor, staff profile for
\* admin_staff and super_admin.
C11_OneProfileMatchingRole ==
    \A u \in user :
        /\ ProfileCount(u) = 1
        /\ (u.role = STUDENT) => Cardinality(ProfilesOf(student_profile, u)) = 1
        /\ (u.role = PROFESSOR) => Cardinality(ProfilesOf(professor_profile, u)) = 1
        /\ (u.role \in {ADMIN_STAFF, SUPER_ADMIN})
                => Cardinality(ProfilesOf(staff_profile, u)) = 1

\* C11 witness: a student or a professor is stored next to the super admin
\* and the last creation form failed with a database error.
C11_Witness ==
    /\ \E u \in user : u.role \in {STUDENT, PROFESSOR}
    /\ \E u \in user : u.role = SUPER_ADMIN
    /\ \E exc \in Exceptions : response = creation_failed(exc)

\* C12: after any sequence of create_assignment, create_professor,
\* create_module and edit_module, no two stored teaching assignments have the
\* same professor, module, class and academic year, the class left unset
\* included.
C12_NoDuplicateAssignment ==
    \A a, b \in teaching_assignment :
        ( /\ a.professor_id = b.professor_id
          /\ a.module_id = b.module_id
          /\ a.class_id = b.class_id
          /\ a.academic_year = b.academic_year ) => a = b

\* The tables, the mails handed over and the requests in progress.
StoredState ==
    <<absence_threshold, student_absence, professor_absence, inserted, outbox, req,
      user, student_profile, professor_profile, staff_profile, teaching_assignment,
      module_code, threshold_setting>>

\* C13: a request to an operation of the admin blueprint or to a mutating API
\* endpoint changes the stored state only when the role of the authenticated
\* user is super_admin or admin_staff: a request of a student, a professor or
\* an anonymous client leaves every table as it was and starts no handler.
C13_RoleGated ==
    [][\A cu \in Sessions :
            (cu.role \notin {SUPER_ADMIN, ADMIN_STAFF} /\ GatedRequests(cu))
                => UNCHANGED StoredState]_vars

\* C13 witness: a professor was created and absences are stored, and the last
\* request was stopped with 403 by a decorator.
C13_Witness ==
    /\ \E u \in user : u.role = PROFESSOR
    /\ student_absence # {}
    /\ response.status = 403
    /\ response \in {error_page("web", 403),
                      api_denied("Forbidden", "Vous n'avez pas les permissions nécessaires.", 403)}

\* A response that reports a database error of a write operation: the
\* 'DatabaseError' envelope of the API, the 'Erreur lors de la création' flash
\* of the creation forms.
IsDatabaseFailure(r) ==
    \/ r.kind = "json" /\ r.status = 500 /\ r.body.error = Text("DatabaseError")
    \/ /\ r.kind = "html"
       /\ "flash" \in DOMAIN r.body
       /\ Head(r.body.flash) = "Erreur lors de la création: "

\* The message the caller reads in response r.
FailureMessage(r) == IF r.kind = "json" THEN r.body.message ELSE r.body.flash

\* The text of an exception is part of message.
MentionsException(message) == \E i \in DOMAIN message : message[i] \in Exceptions

\* C14: when a write operation hits a database error, the session is rolled
\* back, so that no row of the failed operation is stored, and the caller gets
\* a generic failure message whose text does not depend on the content of the
\* exception.
C14_RollbackAndGenericMessage ==
    [][(IsDatabaseFailure(response') /\ response' # response) =>
            /\ UNCHANGED <<user, student_profile, professor_profile, staff_profile,
                           teaching_assignment>>
            /\ ~MentionsException(FailureMessage(response'))]_vars

\* C15: every error outcome of an /api/v1 endpoint is a JSON object with
\* success = false, an error kind and a message string: the three keys are
\* present and carry these values whatever else the object holds.
C15_ErrorEnvelope ==
    (response.route = "api" /\ response.status >= 400) =>
        /\ response.kind = "json"
        /\ {"success", "error", "message"} \subseteq DOMAIN response.body
        /\ response.body.success = Text("false")
        /\ response.body.error # Text("")
        /\ response.body.message # << >>

\* C16: with the default asynchronous mode send_email hands the message to a
\* background thread and returns without waiting for the delivery: the handler
\* produces its response in every interleaving with the mail threads (even
\* when they never run), a delivery failure in a thread is only logged (a step
\* of a mail thread changes no table, no request and no response), and a
\* message is attempted at most once.
C16_BestEffortMail ==
    /\ [](\A k \in MailKeys : mail_thread[k].attempts <= outbox[k])
    /\ [][(mail_thread' # mail_thread) =>
                UNCHANGED <<absence_threshold, student_absence, professor_absence,
                            inserted, outbox, req, response>>]_vars
    /\ (req[1].pc # "idle") ~> (req[1].pc = "idle" /\ req[1].result \in {"created", "error500"})

\* C16 witness: the handler answered its second request while one mail thread
\* has failed (the failure is in the log) and another has not run yet.
C16_Witness ==
    /\ req[1].pc = "idle" /\ req[1].result = "created"
    /\ inserted = MaxInserts
    /\ error_log = 1
    /\ \E k \in MailKeys : mail_thread[k].attempts = 1 /\ RunningThreads(k) = 1

\* The admin form handler accepts the input in the current state.
WebAccepts(s, m, d, h, j) ==
    ENABLED (admin_create_student_absence_check(1, s, m, d, h, j) /\ req'[1].pc = "commit")

\* POST /api/v1/absences/students accepts the input in the current state.
ApiAccepts(s, m, d, h, j) ==
    ENABLED (api_create_student_absence_check(1, s, m, d, h, j) /\ req'[1].pc = "commit")

\* C17: started from the same database state with the same input (student,
\* module, date, hours, justified), the admin form handler and
\* POST /api/v1/absences/students reject exactly the same inputs, and for an
\* accepted input they store the same record (the five fields of the request)
\* and send the same kind of threshold email (the status of the student after
\* the insert, or none).
C17_ApiMirrorsWeb ==
    /\ [](req[1].pc = "idle" =>
            \A s \in Students, m \in Modules, d \in Dates, h \in MirrorHours, j \in BOOLEAN :
                WebAccepts(s, m, d, h, j) <=> ApiAccepts(s, m, d, h, j))
    /\ [][(req[1].pc = "commit" /\ req'[1].pc = "notify") =>
                student_absence' = student_absence \cup {NewStudentAbsence(1)}]_vars
    /\ [][(req[1].pc = "notify" /\ req'[1].pc = "idle" /\ outbox' # outbox) =>
                LET status == check_threshold_status(student_absence, absence_threshold,
                                                     req[1].who, req[1].module_id)
                IN  status \in EmailKinds /\ outbox' = Mailed(req[1].who, req[1].module_id, status)]_vars

\* The student profile with the id is the requesting user's own profile.
OwnProfile(cu, student_id) ==
    \E p \in student_profile : p.id = student_id /\ p.user_id = cu.id

\* The student with the id is in a class for which the requesting professor
\* has a teaching assignment.
TeachesClassOf(cu, student_id) ==
    \E p \in student_profile, q \in professor_profile, a \in teaching_assignment :
        /\ p.id = student_id
        /\ q.user_id = cu.id
        /\ a.professor_id = q.id
        /\ p.class_id # 0
        /\ a.class_id = p.class_id

\* The student or professor cu may read the absences of the student.
MayRead(cu, student_id) ==
    IF cu.role = STUDENT THEN OwnProfile(cu, student_id) ELSE TeachesClassOf(cu, student_id)

\* The 403 AuthorizationError envelope.
IsAuthorizationError(r) ==
    r.kind = "json" /\ r.status = 403 /\ r.body.error = Text("AuthorizationError")

FlagFlipped(id) ==
    {IF u.id = id THEN [u EXCEPT !.is_active = ~u.is_active] ELSE u : u \in user}

\* C19: toggle_user_status (web and API) never changes the is_active flag of
\* the requesting user's own account, never lets a user whose role is not
\* super_admin change the flag of a super_admin, and otherwise (an active
\* super_admin or admin_staff naming another stored user) flips exactly the
\* target user's flag and changes nothing else.
C19_ToggleUserStatus ==
    [][\A cu \in Sessions, id \in UserIdInputs :
            (admin_toggle_user_status(cu, id) \/ api_toggle_user_status(cu, id)) =>
                LET target == UserById(id)
                    self == id = cu.id
                    protected == \E u \in target : u.role = SUPER_ADMIN /\ cu.role # SUPER_ADMIN
                IN  /\ (self \/ protected) => user' = user
                    /\ user' \in {user, FlagFlipped(id)}
                    /\ ( /\ cu.role \in {SUPER_ADMIN, ADMIN_STAFF}
                         /\ cu.is_active
                         /\ target # {}
                         /\ ~self /\ ~protected ) => user' = FlagFlipped(id)
                    /\ UNCHANGED <<student_profile, professor_profile, staff_profile,
                                   teaching_assignment, module_code>>
                    /\ UNCHANGED absence_vars]_vars

\* C19 witness: the account of a student was deactivated and the last request,
\* a user's attempt on the own account, was refused.
C19_Witness ==
    /\ \E u \in user : u.role = STUDENT /\ ~u.is_active
    /\ \/ response = flashed(Text("Vous ne pouvez pas désactiver votre propre compte."), "danger", 302)
       \/ response = error_response(Text("Vous ne pouvez pas modifier votre propre statut"),
                                     "ValidationError", 400, NoKwargs)

\* C20: change_password changes the stored password only when the submitted
\* current password matches; on success it also sets is_first_login to false
\* and clears initial_password, and on a wrong current password the password,
\* is_first_login and initial_password are all left unchanged.
C20_ChangePassword ==
    [][\A cu \in user, form_ok \in BOOLEAN,
          current_password \in PasswordInputs, new_password \in NewPasswordInputs :
            change_password(cu, form_ok, current_password, new_password) =>
                LET matches == cu.password_hash = generate_password_hash(current_password)
                    changed == [cu EXCEPT !.password_hash = generate_password_hash(new_password),
                                          !.is_first_login = FALSE,
                                          !.initial_password = ""]
                IN  /\ ~matches => user' = user
                    /\ (matches /\ form_ok) => changed \in user'
                    /\ user' \in {user, (user \ {cu}) \cup {changed}}]_vars

\* C20 witness: a student has changed the generated password (first-login flag
\* off, initial password cleared) and the last request, with a wrong current
\* password, was refused.
C20_Witness ==
    /\ \E u \in user :
            /\ u.role = STUDENT
            /\ u.password_hash = generate_password_hash("new-secret")
            /\ ~u.is_first_login
            /\ u.initial_password = ""
    /\ response = flashed(Text("Mot de passe actuel incorrect."), "danger", 200)

\* C21: forgot_password does not tell whether an address belongs to a user:
\* two requests that differ only in the submitted address, one of a stored
\* user and one of no user, are answered with the same response (message and
\* redirect) and lead to the same state.
C21_NoEmailEnumeration ==
    [][\A cu \in Sessions, form_ok \in BOOLEAN,
          known \in ForgotEmailInputs, unknown \in ForgotEmailInputs :
            (UserByEmail(lower(known)) # {} /\ UserByEmail(lower(unknown)) = {}) =>
                (forgot_password(cu, form_ok, known)
                    <=> forgot_password(cu, form_ok, unknown))]_vars

\* C21 witness: after an account was deactivated, a forgot-password form was
\* submitted by a visitor and answered with the notice and the redirect to the
\* login page.
C21_Witness ==
    /\ \E u \in user : ~u.is_active
    /\ response = flashed_redirect(
            Text("Si cet email existe, un lien de réinitialisation a été envoyé."),
            "info", "auth.login")

\* C22: after any sequence of update_threshold requests, every stored
\* ThresholdSetting has a total threshold (threshold_days * 8 +
\* threshold_hours) greater than 0.
C22_ThresholdPositive ==
    \A setting \in threshold_setting : get_total_hours(setting) > 0

\* C23: only a super admin creates administrative accounts: no request of a
\* user whose role is admin_staff, through the web forms or POST
\* /api/v1/users, adds a user with role admin_staff or super_admin.
C23_StaffCreatesNoAdmin ==
    [][\A cu \in Sessions :
            (cu.role = ADMIN_STAFF /\ AccountRequests(cu)) =>
                \A u \in user' \ user : u.role \notin {ADMIN_STAFF, SUPER_ADMIN}]_vars

\* C24: in every state reachable from the initialised database by toggle
\* requests of logged-in users, in any order and interleaving, at least one
\* user with role super_admin has is_active = true.
C24_ActiveSuperAdmin ==
    \E u \in user : u.role = SUPER_ADMIN /\ u.is_active

\* C24 witness: two toggle requests are in flight at once, the account of the
\* administrative staff member is deactivated, and the last answered request
\* was an attempt on the super admin that was refused.
C24_Witness ==
    /\ \A w \in Workers : req[w].pc = "commit" /\ req[w].op \in {"web", "api"}
    /\ \E u \in user : u.role = ADMIN_STAFF /\ ~u.is_active
    /\ \/ response = flashed(Text("Seul un super administrateur peut modifier un autre super administrateur."), "danger", 302)
       \/ response = error_response(Text("Permission refusée"), "AuthorizationError", 403, NoKwargs)
       \/ response = flashed(Text("Vous ne pouvez pas désactiver votre propre compte."), "danger", 302)

C26_FirstLoginRedirected ==
    [][\A cu \in user, id \in UserIdInputs :
            ( /\ cu.is_first_login
              /\ \/ dashboard(cu)
                 \/ admin_toggle_user_status(cu, id)
                 \/ api_toggle_user_status(cu, id) )
                => /\ response' = first_login_redirect
                   /\ UNCHANGED StoredState]_vars

====
